---- MODULE Spec2Model ----
(***************************************************************************)
(* A model of sproxy2's proxy engine: the registry (ProxyRunnerService),   *)
(* the per-instance lifecycle (ProxyBase), the direct and SSH-tunnel       *)
(* run-loops (Socks5Proxy / HttpProxy) and the SOCKS5 connection handler.  *)
(*                                                                         *)
(* Two threads act on the lifecycle state.  The GUI thread calls the       *)
(* registry (start_proxy / stop_proxy) and hands coroutines to the event   *)
(* loop with run_coroutine_threadsafe.  The event-loop thread runs one     *)
(* callback at a time, in FIFO order (variable ready); a coroutine runs    *)
(* from one await to the next without interruption.  A task that waits     *)
(* for the outside world (a timer, a socket, the child process) continues  *)
(* in a TaskIO step; a task that was cancelled is woken through the ready  *)
(* queue and gets CancelledError at the await it is suspended in.          *)
(***************************************************************************)
EXTENDS Integers, Sequences, FiniteSets, TLC

(* ------------------------------ bounds -------------------------------- *)

\* instances the registry may construct in one behaviour
MaxInst == 2
\* direct start()/stop() calls on the instance in the instance-level specification
MaxCalls == 3

\* tunnel-mode instances among them
MaxTunnels == 1

Names == {"a", "b"}
Ports == {1, 2}

(* ------------------------------ configs ------------------------------- *)

\* ProxyConfig, reduced to the fields the engine reads: proxy_type,
\* ssh_username (set or not) and bind_port.
ProxyConfig ==
    [ptype : {"socks5", "http"}, ssh : BOOLEAN, port : Ports]

\* A config object create_proxy cannot read (it raises AttributeError).
BadConfig == [ptype |-> "none", ssh |-> FALSE, port |-> 0]

\* create_proxy: HttpProxy for "http", Socks5Proxy for everything else.
create_proxy(c) == IF c.ptype = "http" THEN "HttpProxy" ELSE "Socks5Proxy"

\* run(): which run-loop the instance takes.
\*   Socks5Proxy: SSH tunnel when ssh_username is set, else direct.
\*   HttpProxy:   logs an error and returns when ssh_username is set, else direct.
RunMode(c) ==
    IF create_proxy(c) = "HttpProxy"
    THEN (IF c.ssh THEN "unsupported" ELSE "direct")
    ELSE (IF c.ssh THEN "tunnel" ELSE "direct")

\* range(20) of the startup probe
ProbeTicks == 20

VARIABLES
    running,   \* ProxyRunnerService._running_proxies: name -> instance id, 0 = absent
    loop,      \* ProxyRunnerService._loop: "unset", "open" or "closed"
    ret,       \* what the last start_proxy / stop_proxy call did for its caller
    inst,      \* the ProxyBase objects constructed so far (a sequence of records)
    ready,     \* the event loop's FIFO of callbacks that are ready to run
    calls,     \* direct start()/stop() calls made (instance-level specification)
    conn,      \* one client connection of a SOCKS5 listener and its _handle_client
    http,      \* one client connection of an HTTP listener and its _handle_client
    relay,     \* one _relay_data call: the two streams and the two copy loops
    ssh,       \* one SSH child that exited during startup: its stderr and the outcome
    store      \* ConfigService: the held config, the file, the last operation

vars == <<running, loop, ret, inst, ready, calls, conn, http, relay, ssh, store>>

Inst == 1..Len(inst)

(* ------------- ConfigService and the main window's edits --------------- *)

\* Names of config entries, and the (listen_address, listen_port) pairs they
\* can have; Absent stands for a key the dict does not hold.
ConfigNames == {"a", "b", "c"}
Endpoints == {<<"h", 1>>, <<"h", 2>>, <<"k", 1>>}
Absent == <<"", 0>>

\* A proxies dict: name -> endpoint.  (The other fields of a ProxyConfig play
\* no part in the operations below.)
Dicts == [ConfigNames -> Endpoints \cup {Absent}]
Keys(d) == {n \in ConfigNames : d[n] # Absent}

\* (mutant) validate_proxies that raises for nothing.
validate_proxies_NoCheck(d) == "ok"

\* validate_proxies: ValueError when an endpoint occurs under two names.
validate_proxies(d) ==
    IF \E n, m \in Keys(d) : n # m /\ d[n] = d[m] THEN "ValueError" ELSE "ok"

\* The dataclass constructor ProxyConfig(...): TypeError unless every field
\* without a default is given.
RequiredFields == {"listen_address", "listen_port", "bind_port", "proxy_type"}
ProxyConfig__init__(given) == IF RequiredFields \subseteq given THEN "ok" ELSE "TypeError"

\* store:
\*   file    the proxies table of the config file
\*   loaded  a ConfigService has been constructed
\*   held    self._config.proxies
\*   op,
\*   name,
\*   ep,
\*   out     the last operation, its name and endpoint arguments and how it ended
NoStore ==
    [file |-> [n \in ConfigNames |-> Absent], loaded |-> FALSE,
     held |-> [n \in ConfigNames |-> Absent],
     op |-> "none", name |-> "", ep |-> Absent, out |-> "none"]

Done(st, op, n, e, out) == [st EXCEPT !.op = op, !.name = n, !.ep = e, !.out = out]

\* ConfigService.__init__: load_config parses the file and validates it; a
\* ValueError leaves no service.
load_config(st) ==
    IF validate_proxies(st.file) = "ok"
    THEN Done([st EXCEPT !.loaded = TRUE, !.held = st.file], "load", "", Absent, "ok")
    ELSE Done(st, "load", "", Absent, "ValueError")

\* add_proxy(name, listen_address, listen_port, bind_port); kw: the caller
\* also passes proxy_type=, run_on_startup= and ssh_username=, which the
\* signature does not take (TypeError at the call).  The body checks the
\* name, constructs ProxyConfig from the three values, validates the updated
\* dict, assigns it and saves it.
add_proxy(st, n, e, kw) ==
    IF kw THEN Done(st, "add", n, e, "TypeError")
    ELSE IF n \in Keys(st.held) THEN Done(st, "add", n, e, "ValueError")
    ELSE IF ProxyConfig__init__({"listen_address", "listen_port", "bind_port"}) # "ok"
         THEN Done(st, "add", n, e, "TypeError")
    ELSE LET updated == [st.held EXCEPT ![n] = e]
         IN  IF validate_proxies(updated) # "ok"
             THEN Done(st, "add", n, e, "ValueError")
             ELSE Done([st EXCEPT !.held = updated, !.file = updated],
                       "add", n, e, "ok")

\* remove_proxy(name): KeyError for an unknown name; else the dict without
\* the name is assigned and saved.
remove_proxy(st, n) ==
    IF n \notin Keys(st.held) THEN Done(st, "remove", n, Absent, "KeyError")
    ELSE LET updated == [st.held EXCEPT ![n] = Absent]
         IN  Done([st EXCEPT !.held = updated, !.file = updated],
                  "remove", n, Absent, "ok")

\* MainWindow._on_edit_proxy(name) with the dialog accepted (new name m, new
\* endpoint e): warning for an unknown name; else remove_proxy(name), then
\* add_proxy(m, ..., proxy_type=..., ...); any exception of the two is caught
\* and shown ("Failed to edit proxy").
on_edit_proxy(st, n, m, e) ==
    IF n \notin Keys(st.held) THEN Done(st, "edit", n, e, "not_found")
    ELSE LET removed == remove_proxy(st, n)
             added   == add_proxy(removed, m, e, TRUE)
         IN  IF removed.out # "ok" THEN Done(removed, "edit", n, e, "failed")
             ELSE IF added.out # "ok" THEN Done(added, "edit", n, e, "failed")
             ELSE Done(added, "edit", n, e, "ok")

Others == <<running, loop, ret, inst, ready, calls, conn, http, relay, ssh>>

ConfigInit ==
    /\ ~store.loaded /\ store.op = "none"
    /\ store' = load_config(store)
    /\ UNCHANGED Others

AddProxy(n, e, kw) ==
    /\ store.loaded
    /\ store' = add_proxy(store, n, e, kw)
    /\ UNCHANGED Others

RemoveProxy(n) ==
    /\ store.loaded
    /\ store' = remove_proxy(store, n)
    /\ UNCHANGED Others

EditProxy(n, m, e) ==
    /\ store.loaded
    /\ store' = on_edit_proxy(store, n, m, e)
    /\ UNCHANGED Others

(* ------------------------- ProxyBase objects -------------------------- *)

\* ProxyBase.__init__ (and the subclass __init__): no task, event clear, not
\* running, no server, no child.  The other fields are bookkeeping of the model:
\*   tpc        where the run-loop task is suspended ("none": no task yet)
\*   cancelReq  Task.cancel() was called and CancelledError is not yet delivered
\*   tend       how the task ended: "returned" or "cancelled" ("raised" would be
\*              a task that ended with an exception)
\*   failed     run() raised an Exception (a listen error, a tunnel failure, ...)
\*   lostTasks  unfinished tasks whose handle self._task was overwritten
\*   listener   the listening socket this instance created
\*   orphans    children whose handle self._ssh_process was overwritten while alive
\*   stopWait   stop() coroutines suspended in `await self._task`
\*   stopped    a stop() that passed its guard has returned
\*   nStart,
\*   nStop      start() / stop() coroutines the loop has begun to run on the object
\*   lastStart,
\*   lastStop   what the last of them did
\*   err        the RuntimeError _run_ssh_tunnel raised last ("" if none)
NewProxy(n, c) ==
    [name |-> n, cfg |-> c,
     is_running |-> FALSE, stop_event |-> FALSE,
     tpc |-> "none", cancelReq |-> FALSE, tend |-> "", failed |-> FALSE,
     ntasks |-> 0, lostTasks |-> 0, tick |-> 0, established |-> FALSE,
     server |-> FALSE, listener |-> "none",
     child |-> "none", termSent |-> FALSE, killSent |-> FALSE, orphans |-> 0,
     stopWait |-> 0, stopped |-> FALSE,
     nStart |-> 0, nStop |-> 0,
     lastStart |-> "none", lastStop |-> "none", err |-> ""]

TaskUnfinished(r) == r.tpc \notin {"none", "done"}

\* Some listening socket created by an instance holds port p.
PortHeld(p) ==
    \E j \in Inst : inst[j].listener = "serving" /\ inst[j].cfg.port = p

(* ----------------------- _run_with_monitoring ------------------------- *)

\* The task ends: _run_with_monitoring's finally clause has run.  (tick is the
\* probe loop's local counter, gone with the coroutine's frame.)
TaskEnd(r) ==
    [r EXCEPT !.tpc = "done", !.tend = "returned", !.cancelReq = FALSE,
              !.is_running = FALSE, !.tick = 0]

\* run() returned.
MonReturn(r) == TaskEnd(r)

\* run() raised CancelledError: logged, not re-raised.
MonCancelled(r) == TaskEnd(r)

\* (mutant) no `except Exception` clause: the finally clause runs and the
\* exception leaves the task.
MonFailed_NoCatch(r) == [TaskEnd(r) EXCEPT !.tend = "raised", !.failed = TRUE]

\* run() raised an Exception: logged, is_running cleared, not re-raised.
MonFailed(r) == [TaskEnd(r) EXCEPT !.failed = TRUE]

\* The task was cancelled before its first step: the coroutine body, its
\* finally clause included, never runs, and the task ends cancelled.
CancelledBeforeStart(r) ==
    [r EXCEPT !.tpc = "done", !.tend = "cancelled", !.cancelReq = FALSE]

(* ------------------- _run_direct_proxy (both classes) ----------------- *)

\* self._server = None, then `await asyncio.start_server(...)`.  start_server
\* suspends twice: while it resolves the address ("resolve", nothing bound yet)
\* and, after the socket is bound and listening, for one loop iteration
\* ("bound", asyncio's `await sleep(0)` before it returns the Server).
DirectBegin(r) == [r EXCEPT !.server = FALSE, !.tpc = "resolve"]

\* The finally clause: close the server if self._server is set.
DirectFinally(r) ==
    IF r.server THEN [r EXCEPT !.listener = "closed"] ELSE r

\* Leaving `async with self._server`: Server.close().
AsyncWithExit(r) == [r EXCEPT !.listener = "closed"]

\* start_server raised (OSError: the port is in use, ...): except Exception
\* re-raises, the finally clause finds self._server None.
DirectListenFail(r) == MonFailed(DirectFinally(r))

\* The socket is bound and listening; start_server has not returned yet.
DirectBound(r) == [r EXCEPT !.listener = "serving", !.tpc = "bound"]

\* The while loop ended because the stop event is set: leave the async with,
\* log, run the finally clause, return.
DirectLoopExit(r) == MonReturn(DirectFinally(AsyncWithExit(r)))

\* start_server returned: self._server is set, the async with is entered and
\* the loop waits for the stop event (5 s timeout) unless it is already set.
DirectServing(r) ==
    LET s == [r EXCEPT !.server = TRUE]
    IN  IF s.stop_event THEN DirectLoopExit(s) ELSE [s EXCEPT !.tpc = "serve"]

\* (mutant) the health check logs "Server stopped unexpectedly" and leaves the
\* loop without raising.
DirectHealthFail_NoRaise(r) == MonReturn(DirectFinally(AsyncWithExit(r)))

\* The health check after a timeout found the server not serving:
\* RuntimeError leaves the async with, is re-raised, the finally clause runs.
DirectHealthFail(r) == MonFailed(DirectFinally(AsyncWithExit(r)))

\* What the wait in the loop can do once something happened: the event is set
\* (the loop ends) or the timeout fired with the server not serving.
DirectServeOutcomes(r) ==
    (IF r.stop_event THEN {DirectLoopExit(r)} ELSE {})
    \cup (IF r.listener # "serving" THEN {DirectHealthFail(r)} ELSE {})

\* CancelledError delivered at the await the task is suspended in.
\*   resolve: nothing bound, self._server is None.
\*   bound:   the socket stays bound and listening; self._server is None, so
\*            the finally clause closes nothing.
\*   serve:   CancelledError leaves the async with (close), is re-raised by
\*            `except CancelledError`, the finally clause runs.  (Up to Python
\*            3.11 wait_for returns normally instead when the event is set in
\*            the same iteration; the loop then ends the same way.)
DirectCancel(r) ==
    CASE r.tpc = "resolve" -> MonCancelled(DirectFinally(r))
      [] r.tpc = "bound"   -> MonCancelled(DirectFinally(r))
      [] r.tpc = "serve"   -> MonCancelled(DirectFinally(AsyncWithExit(r)))
      [] OTHER             -> MonCancelled(r)

(* -------------------- Socks5Proxy._run_ssh_tunnel --------------------- *)

\* `await asyncio.create_subprocess_exec(...)`.
TunnelBegin(r) == [r EXCEPT !.tpc = "spawn"]

\* (mutant) the probe loop body without its returncode check.
ProbeIter_NoExitCheck(r) == [r EXCEPT !.tpc = "probe_conn"]

\* Top of the probe loop body: the child's exit is checked first; if it has
\* exited its stderr is read ("probe_err"), else the port probe starts.
ProbeIter(r) ==
    IF r.child # "alive"
    THEN [r EXCEPT !.tpc = "probe_err"]
    ELSE [r EXCEPT !.tpc = "probe_conn"]

\* The cleanup after the health loop: terminate() a child that has not exited
\* and wait up to 5 s for it.
TunnelCleanup(r) ==
    IF r.child = "alive"
    THEN [r EXCEPT !.termSent = TRUE, !.tpc = "term_wait"]
    ELSE MonReturn(r)

\* `while not self._stop_event.is_set()`: first evaluation after the probe.
EnterHealth(r) ==
    LET s == [r EXCEPT !.tick = 0]
    IN  IF s.stop_event THEN TunnelCleanup(s) ELSE [s EXCEPT !.tpc = "health"]

\* create_subprocess_exec returned the child, or raised (no ssh binary, ...).
SpawnOutcomes(r) ==
    { ProbeIter([r EXCEPT !.child = "alive", !.tick = 0, !.established = FALSE,
                          !.termSent = FALSE, !.killSent = FALSE,
                          !.orphans = IF r.child = "alive" THEN @ + 1 ELSE @]),
      MonFailed(r) }

\* (mutant) the probe without its `break`: a successful connect is recorded
\* and the loop goes on to its sleep.
ProbeConnOutcomes_NoBreak(r) ==
    { [r EXCEPT !.established = TRUE, !.tpc = "probe_sleep"],
      [r EXCEPT !.tpc = "probe_sleep"] }

\* The try block of the probe ("probe_conn": the connect under wait_for, then
\* close and wait_closed of the test connection, which are handled alike) ran
\* through (established, break), or one of its awaits raised or timed out
\* (bare except, then sleep 0.5 s).
ProbeConnOutcomes(r) ==
    { EnterHealth([r EXCEPT !.established = TRUE]), [r EXCEPT !.tpc = "probe_sleep"] }

\* The 0.5 s sleep ended: next tick, or the loop of range(20) is exhausted.
ProbeSleepDone(r) ==
    LET s == [r EXCEPT !.tick = @ + 1]
    IN  IF s.tick >= ProbeTicks THEN EnterHealth(s) ELSE ProbeIter(s)

\* stderr was read: RuntimeError("SSH connection failed: ...").
ProbeErrDone(r) == [MonFailed(r) EXCEPT !.err = "SSH connection failed"]

\* The health wait: the event is set (the loop ends), or the 2 s timeout fired
\* and the child has exited (read its stderr).
HealthOutcomes(r) ==
    (IF r.stop_event THEN {TunnelCleanup(r)} ELSE {})
    \cup (IF r.child # "alive" THEN {[r EXCEPT !.tpc = "health_err"]} ELSE {})

\* (mutant) the health check logs the exit and ends the loop without raising.
HealthErrDone_NoRaise(r) == MonReturn(r)

\* stderr was read: RuntimeError("SSH tunnel disconnected").
HealthErrDone(r) == [MonFailed(r) EXCEPT !.err = "SSH tunnel disconnected"]

\* wait_for(self._ssh_process.wait(), 5.0): the child exited, or TimeoutError:
\* kill() and wait again.
TermWaitOutcomes(r) ==
    IF r.child # "alive"
    THEN {MonReturn(r)}
    ELSE {[r EXCEPT !.killSent = TRUE, !.tpc = "kill_wait"]}

\* The killed child was reaped.
KillWaitDone(r) == MonReturn([r EXCEPT !.child = "exited"])

\* CancelledError delivered at the await the task is suspended in.
\*   spawn:        create_subprocess_exec cleans up after itself; no child.
\*   probe_conn:   inside `try: ... except: pass`; the bare except swallows
\*                 the cancellation and the loop goes on to its sleep.
\*   health:       wait_for raises CancelledError; `except Exception` does not
\*                 catch it and the cleanup is skipped.  Up to Python 3.11
\*                 wait_for returns normally instead when the event was set in
\*                 the same iteration, and the loop ends through the cleanup.
\*   elsewhere:    CancelledError propagates out of _run_ssh_tunnel.
TunnelCancel(r) ==
    LET c == [r EXCEPT !.cancelReq = FALSE]
    IN  CASE r.tpc = "probe_conn" ->
                {[c EXCEPT !.tpc = "probe_sleep"]}
          [] r.tpc = "health" ->
                {MonCancelled(r)}
                \cup (IF r.stop_event THEN {TunnelCleanup(c)} ELSE {})
          [] OTHER -> {MonCancelled(r)}

(* ------------------------ ProxyBase.start / stop ---------------------- *)

\* (mutant) start() without its `if self.is_running: return`.
StartCoro_NoGuard(r) ==
    [r EXCEPT !.stop_event = FALSE, !.tpc = "new", !.cancelReq = FALSE,
              !.tend = "", !.ntasks = @ + 1, !.is_running = TRUE,
              !.lostTasks = IF TaskUnfinished(r) THEN @ + 1 ELSE @,
              !.nStart = @ + 1, !.lastStart = "launched"]

\* start(): no-op when is_running; else clear the event, create the run-loop
\* task (it takes its first step in a later loop iteration), set is_running.
StartCoro(r) ==
    IF r.is_running
    THEN [r EXCEPT !.nStart = @ + 1, !.lastStart = "noop"]
    ELSE [r EXCEPT !.stop_event = FALSE, !.tpc = "new", !.cancelReq = FALSE,
                   !.tend = "", !.ntasks = @ + 1, !.is_running = TRUE,
                   !.lostTasks = IF TaskUnfinished(r) THEN @ + 1 ELSE @,
                   !.nStart = @ + 1, !.lastStart = "launched"]

\* stop() up to its await: no-op when not is_running; else set the event and,
\* if there is a task, cancel it and await it.  Awaiting a task that has ended
\* does not suspend (a CancelledError it raises is caught), so stop() runs on
\* to `self.is_running = False`.
StopCoro(r) ==
    IF ~r.is_running
    THEN [r EXCEPT !.nStop = @ + 1, !.lastStop = "noop"]
    ELSE IF TaskUnfinished(r)
         THEN [r EXCEPT !.stop_event = TRUE, !.cancelReq = TRUE,
                        !.stopWait = @ + 1, !.nStop = @ + 1, !.lastStop = "waiting"]
         ELSE [r EXCEPT !.stop_event = TRUE, !.is_running = FALSE,
                        !.stopped = TRUE, !.nStop = @ + 1, !.lastStop = "stopped"]

\* stop() after `await self._task`: is_running = False.
StopResume(r) ==
    [r EXCEPT !.is_running = FALSE, !.stopped = TRUE, !.lastStop = "stopped"]

\* Task.cancel() schedules a wake-up of a task suspended in an await, unless
\* one is already scheduled; a task that has not run yet is already scheduled.
CancelWakes(r) ==
    r.is_running /\ TaskUnfinished(r) /\ r.tpc # "new" /\ ~r.cancelReq

(* --------------------------- the run-loop task ------------------------ *)

\* The first step of the task: _run_with_monitoring calls run(), which
\* dispatches on the config.
FirstStep(r) ==
    CASE RunMode(r.cfg) = "unsupported" -> MonReturn(r)
      [] RunMode(r.cfg) = "tunnel"      -> TunnelBegin(r)
      [] OTHER                          -> DirectBegin(r)

\* A callback of the task taken from the ready queue: its first step, or the
\* delivery of a cancellation.
TaskWake(r) ==
    IF r.tpc = "new"
    THEN (IF r.cancelReq THEN {CancelledBeforeStart(r)} ELSE {FirstStep(r)})
    ELSE IF TaskUnfinished(r) /\ r.cancelReq
         THEN (IF RunMode(r.cfg) = "tunnel" THEN TunnelCancel(r) ELSE {DirectCancel(r)})
         ELSE {r}

\* The task continues because what it waited for happened.  portFree: whether
\* the listen on the bind port can succeed.
TaskIOOutcomes(r, portFree) ==
    CASE r.tpc = "resolve" ->
            {DirectListenFail(r)} \cup (IF portFree THEN {DirectBound(r)} ELSE {})
      [] r.tpc = "bound"       -> {DirectServing(r)}
      [] r.tpc = "serve"       -> DirectServeOutcomes(r)
      [] r.tpc = "spawn"       -> SpawnOutcomes(r)
      [] r.tpc = "probe_conn"  -> ProbeConnOutcomes(r)
      [] r.tpc = "probe_sleep" -> {ProbeSleepDone(r)}
      [] r.tpc = "probe_err"   -> {ProbeErrDone(r)}
      [] r.tpc = "health"      -> HealthOutcomes(r)
      [] r.tpc = "health_err"  -> {HealthErrDone(r)}
      [] r.tpc = "term_wait"   -> TermWaitOutcomes(r)
      [] r.tpc = "kill_wait"   -> {KillWaitDone(r)}
      [] OTHER                 -> {}

(* ----------------------------- event loop ----------------------------- *)

StopWakes(i, k) == [j \in 1..k |-> <<"stopwake", i>>]

\* Instance i becomes r2 and the ready queue q; when this ends the task, every
\* stop() awaiting it is scheduled to resume.
Commit(i, r2, q) ==
    IF inst[i].tpc # "done" /\ r2.tpc = "done" /\ r2.stopWait > 0
    THEN /\ inst' = [inst EXCEPT ![i] = [r2 EXCEPT !.stopWait = 0]]
         /\ ready' = q \o StopWakes(i, r2.stopWait)
    ELSE /\ inst' = [inst EXCEPT ![i] = r2]
         /\ ready' = q

\* The loop runs the start() coroutine at the head of the queue.
RunStart(i) ==
    /\ Commit(i, StartCoro(inst[i]),
              IF inst[i].is_running THEN Tail(ready)
              ELSE Append(Tail(ready), <<"step", i>>))

\* The loop runs the stop() coroutine at the head of the queue.
RunStop(i) ==
    /\ Commit(i, StopCoro(inst[i]),
              IF CancelWakes(inst[i]) THEN Append(Tail(ready), <<"step", i>>)
              ELSE Tail(ready))

\* The loop runs a callback of the run-loop task.
RunTask(i) ==
    \E r2 \in TaskWake(inst[i]) : Commit(i, r2, Tail(ready))

\* The loop resumes a stop() whose awaited task has ended.
RunStopWake(i) ==
    Commit(i, StopResume(inst[i]), Tail(ready))

\* One iteration of the event loop: the callback at the head of the queue.
LoopStep ==
    /\ ready # <<>>
    /\ LET kind == Head(ready)[1]
           i    == Head(ready)[2]
       IN  CASE kind = "start"    -> RunStart(i)
             [] kind = "stop"     -> RunStop(i)
             [] kind = "step"     -> RunTask(i)
             [] kind = "stopwake" -> RunStopWake(i)
    /\ UNCHANGED <<running, loop, ret, calls, conn, http, relay, ssh, store>>

\* The outside world completes what the task of instance i waits for.
TaskIO(i) ==
    /\ ~inst[i].cancelReq
    /\ \E r2 \in TaskIOOutcomes(inst[i], ~PortHeld(inst[i].cfg.port)) :
          Commit(i, r2, ready)
    /\ UNCHANGED <<running, loop, ret, calls, conn, http, relay, ssh, store>>

\* The SSH child exits on its own (authentication failure, network loss,
\* SIGTERM received, ...).
ChildExits(i) ==
    /\ inst[i].child = "alive"
    /\ inst' = [inst EXCEPT ![i].child = "exited"]
    /\ UNCHANGED <<running, loop, ret, ready, calls, conn, http, relay, ssh, store>>

\* The server of a direct instance stops serving without a stop request.
ServerDies(i) ==
    /\ inst[i].server /\ inst[i].listener = "serving" /\ inst[i].tpc = "serve"
    /\ inst' = [inst EXCEPT ![i].listener = "closed"]
    /\ UNCHANGED <<running, loop, ret, ready, calls, conn, http, relay, ssh, store>>

\* The configs start_proxy is given: direct SOCKS5 on the first port, direct
\* HTTP on the second, a SOCKS5 tunnel, an HTTP config with ssh_username, and
\* one that is no ProxyConfig.
Configs ==
    { [ptype |-> "socks5", ssh |-> FALSE, port |-> 1],
      [ptype |-> "http",   ssh |-> FALSE, port |-> 2],
      [ptype |-> "socks5", ssh |-> TRUE,  port |-> 1],
      [ptype |-> "http",   ssh |-> TRUE,  port |-> 2],
      BadConfig }

Tunnels == {i \in Inst : RunMode(inst[i].cfg) = "tunnel"}

(* ------------------------- ProxyRunnerService ------------------------- *)

Ret(op, n, out) == [op |-> op, out |-> out]

\* set_event_loop(loop): the loop handed over is running, or already closed.
SetEventLoop(l) ==
    /\ loop = "unset"
    /\ loop' = l
    /\ UNCHANGED <<running, ret, inst, ready, calls, conn, http, relay, ssh, store>>

\* (mutant) start_proxy without its `if name in self._running_proxies: return`.
StartProxy_NoGuard(n, c) ==
    /\ loop = "open" /\ c # BadConfig
    /\ Len(inst) < MaxInst
    /\ RunMode(c) = "tunnel" => Cardinality(Tunnels) < MaxTunnels
    /\ inst' = Append(inst, NewProxy(n, c))
    /\ running' = [running EXCEPT ![n] = Len(inst) + 1]
    /\ ready' = Append(ready, <<"start", Len(inst) + 1>>)
    /\ ret' = Ret("start", n, "ok")
    /\ UNCHANGED <<loop, calls, conn, http, relay, ssh, store>>

\* (mutant) start_proxy whose except clause does not remove the name again.
StartProxy_NoDel(n, c) ==
    IF running[n] # 0
    THEN /\ ret' = Ret("start", n, "noop")
         /\ UNCHANGED <<running, loop, inst, ready, calls, conn, http, relay, ssh, store>>
    ELSE IF loop = "unset" \/ c = BadConfig
    THEN /\ ret' = Ret("start", n, "raised")
         /\ UNCHANGED <<running, loop, inst, ready, calls, conn, http, relay, ssh, store>>
    ELSE /\ Len(inst) < MaxInst
         /\ RunMode(c) = "tunnel" => Cardinality(Tunnels) < MaxTunnels
         /\ inst' = Append(inst, NewProxy(n, c))
         /\ running' = [running EXCEPT ![n] = Len(inst) + 1]
         /\ IF loop = "closed"
            THEN ready' = ready /\ ret' = Ret("start", n, "raised")
            ELSE /\ ready' = Append(ready, <<"start", Len(inst) + 1>>)
                 /\ ret' = Ret("start", n, "ok")
         /\ UNCHANGED <<loop, calls, conn, http, relay, ssh, store>>

\* start_proxy(name, config).
StartProxy(n, c) ==
    IF running[n] # 0
    THEN \* already in the map: warning, return
         /\ ret' = Ret("start", n, "noop")
         /\ UNCHANGED <<running, loop, inst, ready, calls, conn, http, relay, ssh, store>>
    ELSE IF loop = "unset"
    THEN \* raise RuntimeError("Event loop not set...")
         /\ ret' = Ret("start", n, "raised")
         /\ UNCHANGED <<running, loop, inst, ready, calls, conn, http, relay, ssh, store>>
    ELSE IF c = BadConfig \/ loop = "closed"
    THEN \* create_proxy or run_coroutine_threadsafe raised: the except clause
         \* removes the name from the map again and re-raises
         /\ ret' = Ret("start", n, "raised")
         /\ UNCHANGED <<running, loop, inst, ready, calls, conn, http, relay, ssh, store>>
    ELSE /\ Len(inst) < MaxInst
         /\ RunMode(c) = "tunnel" => Cardinality(Tunnels) < MaxTunnels
         /\ inst' = Append(inst, NewProxy(n, c))
         /\ running' = [running EXCEPT ![n] = Len(inst) + 1]
         /\ ready' = Append(ready, <<"start", Len(inst) + 1>>)
         /\ ret' = Ret("start", n, "ok")
         /\ UNCHANGED <<loop, calls, conn, http, relay, ssh, store>>

\* (mutant) stop_proxy that empties the whole map.
StopProxy_ClearsMap(n) ==
    IF running[n] = 0 \/ loop # "open"
    THEN /\ ret' = Ret("stop", n, IF running[n] = 0 THEN "noop" ELSE "raised")
         /\ UNCHANGED <<running, loop, inst, ready, calls, conn, http, relay, ssh, store>>
    ELSE /\ ready' = Append(ready, <<"stop", running[n]>>)
         /\ running' = [m \in Names |-> 0]
         /\ ret' = Ret("stop", n, "ok")
         /\ UNCHANGED <<loop, inst, calls, conn, http, relay, ssh, store>>

\* stop_proxy(name).
StopProxy(n) ==
    IF running[n] = 0
    THEN \* not in the map: warning, return
         /\ ret' = Ret("stop", n, "noop")
         /\ UNCHANGED <<running, loop, inst, ready, calls, conn, http, relay, ssh, store>>
    ELSE IF loop = "unset"
    THEN /\ ret' = Ret("stop", n, "raised")
         /\ UNCHANGED <<running, loop, inst, ready, calls, conn, http, relay, ssh, store>>
    ELSE IF loop = "closed"
    THEN \* run_coroutine_threadsafe raised: logged and re-raised, no del
         /\ ret' = Ret("stop", n, "raised")
         /\ UNCHANGED <<running, loop, inst, ready, calls, conn, http, relay, ssh, store>>
    ELSE /\ ready' = Append(ready, <<"stop", running[n]>>)
         /\ running' = [running EXCEPT ![n] = 0]
         /\ ret' = Ret("stop", n, "ok")
         /\ UNCHANGED <<loop, inst, calls, conn, http, relay, ssh, store>>

\* is_proxy_running(name) and get_running_proxies().
is_proxy_running(n) == running[n] # 0
get_running_proxies == {n \in Names : running[n] # 0}

(* ---------------- Socks5Proxy: one client connection ------------------ *)

\* longest method list of a generated greeting
MaxMethods == 2

\* str(b) of a byte, and the two lower-case hex digits of f'{b:02x}'.
Digits == <<"0", "1", "2", "3", "4", "5", "6", "7", "8", "9">>
HexDigits == <<"0", "1", "2", "3", "4", "5", "6", "7", "8", "9",
               "a", "b", "c", "d", "e", "f">>

RECURSIVE str(_)
str(n) == IF n < 10 THEN Digits[n + 1]
          ELSE str(n \div 10) \o Digits[(n % 10) + 1]

\* (mutant) hex digits without the zero padding of :02x.
Hex2_NoPad(b) ==
    IF b < 16 THEN HexDigits[b + 1]
    ELSE HexDigits[(b \div 16) + 1] \o HexDigits[(b % 16) + 1]

Hex2(b) == HexDigits[(b \div 16) + 1] \o HexDigits[(b % 16) + 1]

\* sep.join(parts)
RECURSIVE join(_, _)
join(sep, parts) ==
    IF parts = <<>> THEN ""
    ELSE IF Len(parts) = 1 THEN parts[1]
    ELSE parts[1] \o sep \o join(sep, Tail(parts))

\* '.'.join(str(b) for b in addr_data)
IPv4Host(b) == join(".", [k \in 1..Len(b) |-> str(b[k])])

\* ':'.join(f'{addr_data[i]:02x}{addr_data[i+1]:02x}' for i in range(0, 16, 2))
IPv6Host(b) == join(":", [k \in 1..8 |-> Hex2(b[2 * k - 1]) \o Hex2(b[2 * k])])

\* struct.unpack('!H', port_data)[0]
unpack_H(b) == b[1] * 256 + b[2]

\* The character of a code point, for the code points the generated names
\* decode to.
Chr(cp) ==
    CASE cp = 45  -> "-"
      [] cp = 46  -> "."
      [] cp = 97  -> "a"
      [] cp = 98  -> "b"
      [] cp = 233 -> "{U+00E9}"
      [] OTHER    -> "{U+" \o str(cp) \o "}"

\* bytes.decode('utf-8'), strict: [ok |-> FALSE] stands for UnicodeDecodeError.
\* A lead byte announces 1 to 4 bytes; C0, C1 and F5..FF are no lead bytes; the
\* second byte is narrowed after E0, ED, F0 and F4 (overlong forms, surrogates,
\* code points above U+10FFFF); the others are continuation bytes 80..BF.
RECURSIVE decode(_)
decode(b) ==
    IF b = <<>> THEN [ok |-> TRUE, text |-> ""]
    ELSE
      LET l   == b[1]
          n   == IF l < 128 THEN 1
                 ELSE IF l >= 194 /\ l <= 223 THEN 2
                 ELSE IF l >= 224 /\ l <= 239 THEN 3
                 ELSE IF l >= 240 /\ l <= 244 THEN 4
                 ELSE 0
          lo2 == IF l = 224 THEN 160 ELSE IF l = 240 THEN 144 ELSE 128
          hi2 == IF l = 237 THEN 159 ELSE IF l = 244 THEN 143 ELSE 191
          wellformed ==
              /\ n > 0 /\ Len(b) >= n
              /\ n >= 2 => (b[2] >= lo2 /\ b[2] <= hi2)
              /\ \A k \in 3..n : b[k] >= 128 /\ b[k] <= 191
          cp  == CASE n = 1 -> l
                   [] n = 2 -> (l - 192) * 64 + (b[2] - 128)
                   [] n = 3 -> (l - 224) * 4096 + (b[2] - 128) * 64 + (b[3] - 128)
                   [] n = 4 -> (l - 240) * 262144 + (b[2] - 128) * 4096
                               + (b[3] - 128) * 64 + (b[4] - 128)
          rest == decode(SubSeq(b, n + 1, Len(b)))
      IN  IF ~wellformed THEN [ok |-> FALSE, text |-> ""]
          ELSE IF rest.ok THEN [ok |-> TRUE, text |-> Chr(cp) \o rest.text]
          ELSE rest

\* The replies the handler writes.
ReplyNoAuth      == <<5, 0>>
ReplyNoMethod    == <<5, 255>>
ReplySuccess     == <<5, 0, 0, 1, 0, 0, 0, 0, 0, 0>>
ReplyRefused     == <<5, 5, 0, 1, 0, 0, 0, 0, 0, 0>>
ReplyCmdUnsupp   == <<5, 7, 0, 1, 0, 0, 0, 0, 0, 0>>
ReplyAtypUnsupp  == <<5, 8, 0, 1, 0, 0, 0, 0, 0, 0>>

Range(f) == {f[k] : k \in DOMAIN f}

\* (mutant) a handshake that looks at the first offered method only.
HandshakeReply_FirstOnly(methods) ==
    IF methods # <<>> /\ methods[1] = 0 THEN ReplyNoAuth ELSE ReplyNoMethod

\* _handshake: `if 0 in methods` chooses the reply.
HandshakeReply(methods) ==
    IF 0 \in Range(methods) THEN ReplyNoAuth ELSE ReplyNoMethod

NoTarget == [host |-> "", port |-> -1]

\* No connection (the lifecycle specifications).
NoConn ==
    [input |-> <<>>, eof |-> FALSE, lost |-> FALSE, pos |-> 0, out |-> <<>>,
     pc |-> "none", phase |-> "none", n |-> 0, atyp |-> 0, host |-> "",
     target |-> NoTarget, upstream |-> "none", clientClosed |-> FALSE]

\* A connection the listener has just accepted; _handle_client starts with the
\* handshake.  input is everything the client will send, eof whether it then
\* shuts its sending side down; lost is set when the connection breaks (the
\* reader then holds an exception).  pos counts the bytes the handler has read,
\* out is what it has written; n, atyp and host are locals of the handler;
\* phase is the part of _handle_client reached: "handshake", "request" (line
\* 183), "connect" (line 189) or "relay" (line 208); upstream is how
\* open_connection ended: "none" (not called), "connected" or "failed".
NewConn(bytes, e) ==
    [NoConn EXCEPT !.input = bytes, !.eof = e, !.pc = "hs_head",
                   !.phase = "handshake"]

\* reader.readexactly(k) completes: with the reader's exception, with k bytes,
\* or with IncompleteReadError at end of stream; otherwise it keeps waiting.
ReadCompletes(c, k) == c.lost \/ Len(c.input) - c.pos >= k \/ c.eof
ReadRaises(c, k)    == c.lost \/ Len(c.input) - c.pos < k
ReadData(c, k)      == SubSeq(c.input, c.pos + 1, c.pos + k)

\* _handshake / _parse_request returned False / None, or _handle_client is
\* past its last reply: writer.close() is what remains.
Closing(c) == [c EXCEPT !.pc = "closing"]

Write(c, bytes) == [c EXCEPT !.out = @ \o bytes]

lifecycle == <<running, loop, ret, inst, ready, calls>>

\* (mutant) _handshake without its `if version != 5` branch.
HsHead_NoVersionCheck ==
    /\ conn.pc = "hs_head" /\ ReadCompletes(conn, 2)
    /\ conn' = IF ReadRaises(conn, 2) THEN Closing(conn)
               ELSE LET d == ReadData(conn, 2)
                        c == [conn EXCEPT !.pos = @ + 2]
                    IN  [c EXCEPT !.n = d[2], !.pc = "hs_methods"]
    /\ UNCHANGED <<lifecycle, http, relay, ssh, store>>

\* _handshake: readexactly(2), the version check.
HsHead ==
    /\ conn.pc = "hs_head" /\ ReadCompletes(conn, 2)
    /\ conn' = IF ReadRaises(conn, 2) THEN Closing(conn)
               ELSE LET d == ReadData(conn, 2)
                        c == [conn EXCEPT !.pos = @ + 2]
                    IN  IF d[1] # 5 THEN Closing(c)
                        ELSE [c EXCEPT !.n = d[2], !.pc = "hs_methods"]
    /\ UNCHANGED <<lifecycle, http, relay, ssh, store>>

\* (mutant) _handshake that accepts "no authentication" without writing 05 00.
HsMethods_NoReply ==
    /\ conn.pc = "hs_methods" /\ ReadCompletes(conn, conn.n)
    /\ conn' = IF ReadRaises(conn, conn.n) THEN Closing(conn)
               ELSE LET m == ReadData(conn, conn.n)
                        c == [conn EXCEPT !.pos = @ + conn.n]
                    IN  IF HandshakeReply(m) = ReplyNoAuth
                        THEN [c EXCEPT !.pc = "hs_drain_ok"]
                        ELSE [Write(c, HandshakeReply(m)) EXCEPT !.pc = "hs_drain_no"]
    /\ UNCHANGED <<lifecycle, http, relay, ssh, store>>

\* _handshake: readexactly(nmethods), then the reply is written.
HsMethods ==
    /\ conn.pc = "hs_methods" /\ ReadCompletes(conn, conn.n)
    /\ conn' = IF ReadRaises(conn, conn.n) THEN Closing(conn)
               ELSE LET m == ReadData(conn, conn.n)
                        c == Write([conn EXCEPT !.pos = @ + conn.n], HandshakeReply(m))
                    IN  [c EXCEPT !.pc = IF HandshakeReply(m) = ReplyNoAuth
                                         THEN "hs_drain_ok" ELSE "hs_drain_no"]
    /\ UNCHANGED <<lifecycle, http, relay, ssh, store>>

\* _handshake: `await writer.drain()`; it raises when the connection is lost,
\* and the except clause returns False.
HsDrain ==
    /\ conn.pc \in {"hs_drain_ok", "hs_drain_no"}
    /\ conn' = IF conn.lost \/ conn.pc = "hs_drain_no" THEN Closing(conn)
               ELSE [conn EXCEPT !.pc = "rq_head", !.phase = "request"]
    /\ UNCHANGED <<lifecycle, http, relay, ssh, store>>

\* (mutant) _parse_request without its `if cmd != 1` branch.
RqHead_NoCmdCheck ==
    /\ conn.pc = "rq_head" /\ ReadCompletes(conn, 4)
    /\ conn' = IF ReadRaises(conn, 4) THEN Closing(conn)
               ELSE LET d == ReadData(conn, 4)
                        c == [conn EXCEPT !.pos = @ + 4, !.atyp = d[4]]
                    IN  IF d[1] # 5 THEN Closing(c)
                        ELSE IF d[4] = 1 THEN [c EXCEPT !.n = 4, !.pc = "rq_addr"]
                        ELSE IF d[4] = 3 THEN [c EXCEPT !.pc = "rq_alen"]
                        ELSE IF d[4] = 4 THEN [c EXCEPT !.n = 16, !.pc = "rq_addr"]
                        ELSE [Write(c, ReplyAtypUnsupp) EXCEPT !.pc = "rq_drain"]
    /\ UNCHANGED <<lifecycle, http, relay, ssh, store>>

\* _parse_request: readexactly(4), version, command and address type.
RqHead ==
    /\ conn.pc = "rq_head" /\ ReadCompletes(conn, 4)
    /\ conn' = IF ReadRaises(conn, 4) THEN Closing(conn)
               ELSE LET d == ReadData(conn, 4)
                        c == [conn EXCEPT !.pos = @ + 4, !.atyp = d[4]]
                    IN  IF d[1] # 5 THEN Closing(c)
                        ELSE IF d[2] # 1
                        THEN [Write(c, ReplyCmdUnsupp) EXCEPT !.pc = "rq_drain"]
                        ELSE IF d[4] = 1 THEN [c EXCEPT !.n = 4, !.pc = "rq_addr"]
                        ELSE IF d[4] = 3 THEN [c EXCEPT !.pc = "rq_alen"]
                        ELSE IF d[4] = 4 THEN [c EXCEPT !.n = 16, !.pc = "rq_addr"]
                        ELSE [Write(c, ReplyAtypUnsupp) EXCEPT !.pc = "rq_drain"]
    /\ UNCHANGED <<lifecycle, http, relay, ssh, store>>

\* _parse_request: drain after a failure reply, then return None.
RqDrain ==
    /\ conn.pc = "rq_drain"
    /\ conn' = Closing(conn)
    /\ UNCHANGED <<lifecycle, http, relay, ssh, store>>

\* _parse_request, domain name: readexactly(1) is the length.
RqALen ==
    /\ conn.pc = "rq_alen" /\ ReadCompletes(conn, 1)
    /\ conn' = IF ReadRaises(conn, 1) THEN Closing(conn)
               ELSE [conn EXCEPT !.pos = @ + 1, !.n = ReadData(conn, 1)[1],
                                 !.pc = "rq_addr"]
    /\ UNCHANGED <<lifecycle, http, relay, ssh, store>>

\* _parse_request: the address bytes, formatted by address type; a name that
\* is not UTF-8 raises UnicodeDecodeError and the except clause returns None.
RqAddr ==
    /\ conn.pc = "rq_addr" /\ ReadCompletes(conn, conn.n)
    /\ conn' = IF ReadRaises(conn, conn.n) THEN Closing(conn)
               ELSE LET d == ReadData(conn, conn.n)
                        c == [conn EXCEPT !.pos = @ + conn.n, !.pc = "rq_port"]
                    IN  IF conn.atyp = 1 THEN [c EXCEPT !.host = IPv4Host(d)]
                        ELSE IF conn.atyp = 4 THEN [c EXCEPT !.host = IPv6Host(d)]
                        ELSE IF decode(d).ok THEN [c EXCEPT !.host = decode(d).text]
                        ELSE Closing(c)
    /\ UNCHANGED <<lifecycle, http, relay, ssh, store>>

\* (mutant) the port read with read(2) instead of readexactly(2): a stream
\* that ends inside the port gives port 0 instead of an error.
RqPort_ShortRead ==
    /\ conn.pc = "rq_port" /\ ReadCompletes(conn, 2)
    /\ conn' = IF conn.lost THEN Closing(conn)
               ELSE [conn EXCEPT
                        !.pos = IF ReadRaises(conn, 2) THEN Len(conn.input) ELSE @ + 2,
                        !.pc = "connect", !.phase = "connect",
                        !.target = [host |-> conn.host,
                                    port |-> IF ReadRaises(conn, 2) THEN 0
                                             ELSE unpack_H(ReadData(conn, 2))]]
    /\ UNCHANGED <<lifecycle, http, relay, ssh, store>>

\* _parse_request: readexactly(2) is the port; return (host, port).
RqPort ==
    /\ conn.pc = "rq_port" /\ ReadCompletes(conn, 2)
    /\ conn' = IF ReadRaises(conn, 2) THEN Closing(conn)
               ELSE [conn EXCEPT !.pos = @ + 2, !.pc = "connect",
                                 !.phase = "connect",
                                 !.target = [host |-> conn.host,
                                             port |-> unpack_H(ReadData(conn, 2))]]
    /\ UNCHANGED <<lifecycle, http, relay, ssh, store>>

\* (mutant) the success reply written before the upstream connect is tried.
Connect_ReplyFirst ==
    /\ conn.pc = "connect"
    /\ \E ok \in BOOLEAN :
          conn' = IF ok THEN [Write(conn, ReplySuccess) EXCEPT
                                 !.pc = "ok_drain", !.upstream = "connected"]
                  ELSE [Write(Write(conn, ReplySuccess), ReplyRefused) EXCEPT
                           !.pc = "fail_drain", !.upstream = "failed"]
    /\ UNCHANGED <<lifecycle, http, relay, ssh, store>>

\* _handle_client: open_connection(host, port) succeeds or raises, and the
\* matching reply is written.
Connect ==
    /\ conn.pc = "connect"
    /\ \E ok \in BOOLEAN :
          conn' = IF ok THEN [Write(conn, ReplySuccess) EXCEPT
                                 !.pc = "ok_drain", !.upstream = "connected"]
                  ELSE [Write(conn, ReplyRefused) EXCEPT
                           !.pc = "fail_drain", !.upstream = "failed"]
    /\ UNCHANGED <<lifecycle, http, relay, ssh, store>>

\* (mutant) a failed drain of the success reply answered with a refusal.
ReplyDrain_RefuseOnError ==
    /\ conn.pc \in {"ok_drain", "fail_drain"}
    /\ conn' = IF conn.pc = "fail_drain" THEN Closing(conn)
               ELSE IF conn.lost THEN Closing(Write(conn, ReplyRefused))
               ELSE [conn EXCEPT !.pc = "relay", !.phase = "relay"]
    /\ UNCHANGED <<lifecycle, http, relay, ssh, store>>

\* _handle_client: drain after the reply.  After the failure reply the handler
\* closes; after the success reply it relays unless drain raised.
ReplyDrain ==
    /\ conn.pc \in {"ok_drain", "fail_drain"}
    /\ conn' = IF conn.lost \/ conn.pc = "fail_drain" THEN Closing(conn)
               ELSE [conn EXCEPT !.pc = "relay", !.phase = "relay"]
    /\ UNCHANGED <<lifecycle, http, relay, ssh, store>>

\* _relay_data returns when both directions have ended.
RelayEnds ==
    /\ conn.pc = "relay"
    /\ conn' = Closing(conn)
    /\ UNCHANGED <<lifecycle, http, relay, ssh, store>>

\* (mutant) _handle_client without its finally clause.
Close_NoFinally ==
    /\ conn.pc = "closing"
    /\ conn' = [conn EXCEPT !.pc = "closed"]
    /\ UNCHANGED <<lifecycle, http, relay, ssh, store>>

\* writer.close() and wait_closed(), on every path out of _handle_client
\* (the finally clause; clientClosed: close() was called on the client writer).
Close ==
    /\ conn.pc = "closing"
    /\ conn' = [conn EXCEPT !.pc = "closed", !.clientClosed = TRUE]
    /\ UNCHANGED <<lifecycle, http, relay, ssh, store>>

\* The connection breaks (reset by the client, network failure).
ConnLost ==
    /\ conn.pc \notin {"none", "closing", "closed"} /\ ~conn.lost
    /\ conn' = [conn EXCEPT !.lost = TRUE]
    /\ UNCHANGED <<lifecycle, http, relay, ssh, store>>

(* ----------------- HttpProxy: one client connection -------------------- *)

\* Text is a sequence of characters.  The words the handler compares with or
\* writes:
CONNECT == <<"C", "O", "N", "N", "E", "C", "T">>
CRLF    == <<"\r", "\n">>
LF      == <<"\n">>
HttpScheme == <<"h", "t", "t", "p", ":", "/", "/">>

Reply200 == "HTTP/1.1 200 Connection Established\r\n\r\n"
Reply502 == "HTTP/1.1 502 Bad Gateway\r\n\r\n"

\* str.strip() and str.split() treat these as white space.
IsSpace(ch) == ch \in {" ", "\t", "\n", "\r", "\f"}

\* The first index of character ch in t at or after position from, 0 if none;
\* the last index of ch in t, 0 if none.
RECURSIVE Find(_, _, _)
Find(t, ch, from) ==
    IF from > Len(t) THEN 0
    ELSE IF t[from] = ch THEN from
    ELSE Find(t, ch, from + 1)

RECURSIVE RFind(_, _, _)
RFind(t, ch, from) ==
    IF from < 1 THEN 0
    ELSE IF t[from] = ch THEN from
    ELSE RFind(t, ch, from - 1)

\* str.strip()
RECURSIVE lstrip(_)
lstrip(t) == IF t # <<>> /\ IsSpace(t[1]) THEN lstrip(Tail(t)) ELSE t

RECURSIVE rstrip(_)
rstrip(t) ==
    IF t # <<>> /\ IsSpace(t[Len(t)]) THEN rstrip(SubSeq(t, 1, Len(t) - 1)) ELSE t

strip(t) == rstrip(lstrip(t))

\* str.split(): the maximal runs of characters that are not white space.
RECURSIVE Word(_)
Word(t) == IF t = <<>> \/ IsSpace(t[1]) THEN <<>> ELSE <<t[1]>> \o Word(Tail(t))

RECURSIVE split(_)
split(t) ==
    LET u == lstrip(t)
        w == Word(u)
    IN  IF u = <<>> THEN <<>>
        ELSE <<w>> \o split(SubSeq(u, Len(w) + 1, Len(u)))

\* t.split(ch, 1) and t.rsplit(ch, 1) for a t that contains ch: the parts
\* before and after the first / the last ch.
SplitAt(t, k) == <<SubSeq(t, 1, k - 1), SubSeq(t, k + 1, Len(t))>>
split1(t, ch)  == SplitAt(t, Find(t, ch, 1))
rsplit1(t, ch) == SplitAt(t, RFind(t, ch, Len(t)))

startswith(t, pre) == Len(t) >= Len(pre) /\ SubSeq(t, 1, Len(pre)) = pre

\* int(t) for a t of decimal digits; -1 stands for ValueError (an empty or a
\* non-numeric port).
DigitValue(ch) ==
    CASE ch = "0" -> 0 [] ch = "1" -> 1 [] ch = "2" -> 2 [] ch = "3" -> 3
      [] ch = "4" -> 4 [] ch = "5" -> 5 [] ch = "6" -> 6 [] ch = "7" -> 7
      [] ch = "8" -> 8 [] ch = "9" -> 9 [] OTHER -> -1

RECURSIVE int(_)
int(t) ==
    IF t = <<>> THEN -1
    ELSE LET d == DigitValue(t[Len(t)])
             init == SubSeq(t, 1, Len(t) - 1)
         IN  IF d < 0 THEN -1
             ELSE IF init = <<>> THEN d
             ELSE IF int(init) < 0 THEN -1
             ELSE int(init) * 10 + d


\* str.lower() of a character.
lower(ch) ==
    CASE ch = "A" -> "a" [] ch = "B" -> "b" [] ch = "C" -> "c" [] ch = "D" -> "d"
      [] ch = "E" -> "e" [] ch = "F" -> "f" [] ch = "G" -> "g" [] ch = "H" -> "h"
      [] ch = "I" -> "i" [] ch = "J" -> "j" [] ch = "K" -> "k" [] ch = "L" -> "l"
      [] ch = "M" -> "m" [] ch = "N" -> "n" [] ch = "O" -> "o" [] ch = "P" -> "p"
      [] ch = "Q" -> "q" [] ch = "R" -> "r" [] ch = "S" -> "s" [] ch = "T" -> "t"
      [] ch = "U" -> "u" [] ch = "V" -> "v" [] ch = "W" -> "w" [] ch = "X" -> "x"
      [] ch = "Y" -> "y" [] ch = "Z" -> "z" [] OTHER -> ch

Lower(t) == [k \in 1..Len(t) |-> lower(t[k])]

ProxyConnection ==
    <<"p", "r", "o", "x", "y", "-", "c", "o", "n", "n", "e", "c", "t", "i", "o", "n">>

\* headers[key] = value on a dict kept as a sequence of pairs in insertion
\* order: a key that is present keeps its place and takes the new value.
DictPut(h, key, value) ==
    IF \E k \in 1..Len(h) : h[k][1] = key
    THEN [k \in 1..Len(h) |-> IF h[k][1] = key THEN <<key, value>> ELSE h[k]]
    ELSE Append(h, <<key, value>>)

\* No connection.
NoHttp ==
    [input |-> <<>>, eof |-> FALSE, lost |-> FALSE, pos |-> 0, out |-> <<>>,
     pc |-> "none", phase |-> "none", method |-> <<>>, target |-> <<>>,
     headers |-> <<>>, host |-> <<>>, port |-> -1, path |-> <<>>,
     upstream |-> "none", fwd |-> <<>>, resp |-> <<>>, respErr |-> FALSE,
     rpos |-> 0, upClosed |-> FALSE, clientClosed |-> FALSE]

\* A connection the listener has just accepted; _handle_client starts with the
\* request line.  input is the text the client will send, eof whether it then
\* shuts its sending side down, lost is set when the connection breaks; pos
\* counts what the handler has read and out lists what it has written to the
\* client (a reply, or one item of the upstream's data).  method, target,
\* headers, host, port and path are locals of the handler.  upstream is how
\* open_connection ended; fwd is the text written to the upstream; resp is
\* what the upstream will send (then end of stream, or an error when respErr)
\* and rpos how much of it was read; upClosed: remote_writer.close() was
\* called.  phase is the part reached: "request", "connect" (_handle_connect),
\* "plain" (_handle_http) or "relay".
NewHttp(text, e) ==
    [NoHttp EXCEPT !.input = text, !.eof = e, !.pc = "line", !.phase = "request"]

\* reader.readline() completes: with the reader's exception, with a line up to
\* and including "\n", or at end of stream with what is left (nothing, once
\* the stream is used up); otherwise it keeps waiting.
NextLF(c) == Find(c.input, "\n", c.pos + 1)
LineCompletes(c) == c.lost \/ NextLF(c) > 0 \/ c.eof
LineRaises(c)    == c.lost
LineEnd(c)       == IF NextLF(c) > 0 THEN NextLF(c) ELSE Len(c.input)
Line(c)          == SubSeq(c.input, c.pos + 1, LineEnd(c))

\* Every way out of _handle_client ends in its finally clause: writer.close().
HClosing(c) == [c EXCEPT !.pc = "closing"]

HWrite(c, item) == [c EXCEPT !.out = Append(@, item)]

\* _handle_connect, lines 117-122: host and port of the target; a port that
\* is no number raises ValueError, caught at line 140, and the handler returns
\* without a reply.
ConnectTarget(c) ==
    IF Find(c.target, ":", 1) > 0
    THEN LET hp == rsplit1(c.target, ":")
         IN  IF int(hp[2]) < 0 THEN HClosing([c EXCEPT !.phase = "connect"])
             ELSE [c EXCEPT !.host = hp[1], !.port = int(hp[2]),
                            !.phase = "connect", !.pc = "connect"]
    ELSE [c EXCEPT !.host = c.target, !.port = 443,
                   !.phase = "connect", !.pc = "connect"]

\* (mutant) _handle_http without `path = '/' + path`.
PlainTarget_NoSlash(c) ==
    LET t  == IF startswith(c.target, HttpScheme)
              THEN SubSeq(c.target, 8, Len(c.target)) ELSE c.target
        sl == Find(t, "/", 1)
        host_port == IF sl > 0 THEN split1(t, "/")[1] ELSE t
        path == IF sl > 0 THEN split1(t, "/")[2] ELSE <<"/">>
        hp == rsplit1(host_port, ":")
    IN  IF Find(host_port, ":", 1) > 0
        THEN IF int(hp[2]) < 0 THEN HClosing([c EXCEPT !.phase = "plain"])
             ELSE [c EXCEPT !.host = hp[1], !.port = int(hp[2]), !.path = path,
                            !.phase = "plain", !.pc = "h_connect"]
        ELSE [c EXCEPT !.host = host_port, !.port = 80, !.path = path,
                       !.phase = "plain", !.pc = "h_connect"]

\* _handle_http, lines 147-162: scheme stripped, path split off at the first
\* "/", port split off at the last ":" (80 when absent); ValueError as above.
PlainTarget(c) ==
    LET t  == IF startswith(c.target, HttpScheme)
              THEN SubSeq(c.target, 8, Len(c.target)) ELSE c.target
        sl == Find(t, "/", 1)
        host_port == IF sl > 0 THEN split1(t, "/")[1] ELSE t
        path == IF sl > 0 THEN <<"/">> \o split1(t, "/")[2] ELSE <<"/">>
        hp == rsplit1(host_port, ":")
    IN  IF Find(host_port, ":", 1) > 0
        THEN IF int(hp[2]) < 0 THEN HClosing([c EXCEPT !.phase = "plain"])
             ELSE [c EXCEPT !.host = hp[1], !.port = int(hp[2]), !.path = path,
                            !.phase = "plain", !.pc = "h_connect"]
        ELSE [c EXCEPT !.host = host_port, !.port = 80, !.path = path,
                       !.phase = "plain", !.pc = "h_connect"]

\* _handle_client, lines 98-102: CONNECT goes to _handle_connect, every other
\* method to _handle_http.
Dispatch(c) == IF c.method = CONNECT THEN ConnectTarget(c) ELSE PlainTarget(c)

\* _handle_http, lines 174-179: the request written to the upstream.
RECURSIVE HeaderLines(_)
HeaderLines(h) ==
    IF h = <<>> THEN <<>>
    ELSE (IF Lower(h[1][1]) = ProxyConnection THEN <<>>
          ELSE h[1][1] \o <<":", " ">> \o h[1][2] \o CRLF)
         \o HeaderLines(Tail(h))

ForwardedRequest(c) ==
    c.method \o <<" ">> \o c.path \o <<" ", "H", "T", "T", "P", "/", "1", ".", "1">> \o CRLF
    \o <<"H", "o", "s", "t", ":", " ">> \o c.host \o CRLF
    \o HeaderLines(c.headers) \o CRLF

\* _handle_client: the request line.  An empty line or a line of one word
\* closes the connection.
HttpLine ==
    /\ http.pc = "line" /\ LineCompletes(http)
    /\ http' = IF LineRaises(http) THEN HClosing(http)
               ELSE LET c == [http EXCEPT !.pos = LineEnd(http)]
                        parts == split(strip(Line(http)))
                    IN  IF strip(Line(http)) = <<>> \/ Len(parts) < 2 THEN HClosing(c)
                        ELSE [c EXCEPT !.method = parts[1], !.target = parts[2],
                                       !.pc = "hdr"]
    /\ UNCHANGED <<lifecycle, conn, relay, ssh, store>>

\* _handle_client: one round of the header loop.  "\r\n" or "\n" ends the
\* headers and the request is dispatched; a line with a ":" is stored.  At
\* end of stream readline() returns b'' at once, which neither ends the loop
\* nor suspends the coroutine: the loop spins ("spin") and the handler never
\* gives control back.
HttpHeader ==
    /\ http.pc = "hdr" /\ LineCompletes(http)
    /\ http' = IF LineRaises(http) THEN HClosing(http)
               ELSE LET c == [http EXCEPT !.pos = LineEnd(http)]
                        l == Line(http)
                        header_str == strip(l)
                        kv == split1(header_str, ":")
                    IN  IF l = CRLF \/ l = LF THEN Dispatch(c)
                        ELSE IF l = <<>> THEN [c EXCEPT !.pc = "spin"]
                        ELSE IF Find(header_str, ":", 1) > 0
                        THEN [c EXCEPT !.headers = DictPut(@, strip(kv[1]), strip(kv[2]))]
                        ELSE c
    /\ UNCHANGED <<lifecycle, conn, relay, ssh, store>>

\* What an upstream sends once connected.
Responses == {<<>>, <<"r1">>, <<"r1", "r2">>}

\* (mutant) 200 written before the upstream connect is tried.
HttpConnect_ReplyFirst ==
    /\ http.pc = "connect"
    /\ \/ \E r \in Responses, err \in BOOLEAN :
             http' = [HWrite(http, Reply200) EXCEPT
                         !.pc = "c_ok_drain", !.upstream = "connected",
                         !.resp = r, !.respErr = err]
       \/ http' = [HWrite(HWrite(http, Reply200), Reply502) EXCEPT
                      !.pc = "c_fail_drain", !.upstream = "failed"]
    /\ UNCHANGED <<lifecycle, conn, relay, ssh, store>>

\* _handle_connect: open_connection succeeds or raises, and the matching
\* reply is written.
HttpConnect ==
    /\ http.pc = "connect"
    /\ \/ \E r \in Responses, err \in BOOLEAN :
             http' = [HWrite(http, Reply200) EXCEPT
                         !.pc = "c_ok_drain", !.upstream = "connected",
                         !.resp = r, !.respErr = err]
       \/ http' = [HWrite(http, Reply502) EXCEPT
                      !.pc = "c_fail_drain", !.upstream = "failed"]
    /\ UNCHANGED <<lifecycle, conn, relay, ssh, store>>

\* _handle_connect: drain after the reply.  After 502 the handler returns;
\* after 200 it relays unless drain raised.
HttpConnectDrain ==
    /\ http.pc \in {"c_ok_drain", "c_fail_drain"}
    /\ http' = IF http.lost \/ http.pc = "c_fail_drain" THEN HClosing(http)
               ELSE [http EXCEPT !.pc = "relay", !.phase = "relay"]
    /\ UNCHANGED <<lifecycle, conn, relay, ssh, store>>

\* _relay_data, upstream to client: the next data of the upstream is written
\* to the client.
HttpRelayDeliver ==
    /\ http.pc = "relay" /\ http.rpos < Len(http.resp)
    /\ http' = [HWrite(http, http.resp[http.rpos + 1]) EXCEPT !.rpos = @ + 1]
    /\ UNCHANGED <<lifecycle, conn, relay, ssh, store>>

\* _relay_data returns when both directions have ended; both writers were
\* closed by the copy loops.
HttpRelayEnds ==
    /\ http.pc = "relay"
    /\ http' = HClosing([http EXCEPT !.upClosed = TRUE])
    /\ UNCHANGED <<lifecycle, conn, relay, ssh, store>>

\* _handle_http: open_connection raises and 502 is written, or it succeeds
\* and the re-serialized request is written to the upstream.
HttpPlainConnect ==
    /\ http.pc = "h_connect"
    /\ \/ \E r \in Responses, err \in BOOLEAN :
             http' = [http EXCEPT !.pc = "h_fwd_drain", !.upstream = "connected",
                                  !.fwd = ForwardedRequest(http),
                                  !.resp = r, !.respErr = err]
       \/ http' = [HWrite(http, Reply502) EXCEPT
                      !.pc = "h_fail_drain", !.upstream = "failed"]
    /\ UNCHANGED <<lifecycle, conn, relay, ssh, store>>

\* _handle_http: drain after 502 (return), or after the forwarded request;
\* that one raises when the upstream connection breaks.
HttpPlainDrain ==
    /\ http.pc \in {"h_fwd_drain", "h_fail_drain"}
    /\ \/ http' = IF http.pc = "h_fail_drain" THEN HClosing(http)
                  ELSE [http EXCEPT !.pc = "h_read"]
       \/ http.pc = "h_fwd_drain" /\ http' = HClosing(http)
    /\ UNCHANGED <<lifecycle, conn, relay, ssh, store>>

\* _handle_http: remote_reader.read(8192) yields data, which is written to
\* the client; or end of stream, and remote_writer is closed; or it raises,
\* and the except clause at line 195 ends the handler.
HttpPlainRead ==
    /\ http.pc = "h_read"
    /\ http' = IF http.rpos < Len(http.resp)
               THEN [HWrite(http, http.resp[http.rpos + 1]) EXCEPT
                        !.rpos = @ + 1, !.pc = "h_drain"]
               ELSE IF http.respErr THEN HClosing(http)
               ELSE HClosing([http EXCEPT !.upClosed = TRUE])
    /\ UNCHANGED <<lifecycle, conn, relay, ssh, store>>

\* _handle_http: client_writer.drain() after a piece of the response.
HttpPlainClientDrain ==
    /\ http.pc = "h_drain"
    /\ http' = IF http.lost THEN HClosing(http) ELSE [http EXCEPT !.pc = "h_read"]
    /\ UNCHANGED <<lifecycle, conn, relay, ssh, store>>

\* writer.close() and wait_closed() in the finally clause of _handle_client.
HttpClose ==
    /\ http.pc = "closing"
    /\ http' = [http EXCEPT !.pc = "closed", !.clientClosed = TRUE]
    /\ UNCHANGED <<lifecycle, conn, relay, ssh, store>>

\* The client connection breaks.
HttpLost ==
    /\ http.pc \notin {"none", "spin", "closing", "closed"} /\ ~http.lost
    /\ http' = [http EXCEPT !.lost = TRUE]
    /\ UNCHANGED <<lifecycle, conn, relay, ssh, store>>

(* ------------------------------ _relay_data --------------------------- *)

\* reader.read(8192) returns at most this many bytes (8192, scaled down).
ChunkSize == 2
\* Longest payload one peer sends.
MaxPayload == 3

\* The two streams of a relay: A is the client, B the upstream.
Sides == {"A", "B"}
Other(x) == IF x = "A" THEN "B" ELSE "A"

\* One _relay_data call.  Everything is indexed by a stream x; the copy loop
\* forward(x) reads x and writes Other(x).
\*   src[x]    the bytes the peer of x sends
\*   avail[x]  how many of them have arrived in x's reader
\*   ended[x]  x's reader: "open", "eof" (feed_eof) or "err" (set_exception)
\*   rd[x]     how many bytes forward(x) has read
\*   hold[x]   the chunk forward(x) read and has not written yet
\*   got[x]    the bytes passed to x's writer
\*   closed[x] close() was called on x's writer
\*   pc[x]     forward(x): "read", "write", "drain", "close", "wait_closed",
\*             "done"
\*   closeRaised[x]  forward(x)'s close raised and was swallowed
\*   returned  gather returned
\*   cancelReq the task awaiting gather was cancelled: gather cancels both
\*             copy loops
\*   cancelPending[x]  CancelledError is on its way to forward(x)
\*   swallowed[x]      forward(x) caught a CancelledError and went on
\*   outcome   how _relay_data ended: "returned", or "cancelled" when it
\*             raised CancelledError to its caller
NoRelay ==
    [pc |-> [x \in Sides |-> "none"], src |-> [x \in Sides |-> <<>>],
     avail |-> [x \in Sides |-> 0], ended |-> [x \in Sides |-> "open"],
     rd |-> [x \in Sides |-> 0], hold |-> [x \in Sides |-> <<>>],
     got |-> [x \in Sides |-> <<>>], closed |-> [x \in Sides |-> FALSE],
     closeRaised |-> [x \in Sides |-> FALSE], returned |-> FALSE,
     cancelReq |-> FALSE, cancelPending |-> [x \in Sides |-> FALSE],
     swallowed |-> [x \in Sides |-> FALSE], outcome |-> "none"]

\* _relay_data called with the two streams: gather starts both copy loops.
NewRelay(a, b) ==
    [NoRelay EXCEPT !.pc = [x \in Sides |-> "read"],
                    !.src = [x \in Sides |-> IF x = "A" THEN a ELSE b]]

\* (mutant) the chunk starts one byte late when the buffer holds more than
\* one read can take.
Chunk_SkipOnFull(x) ==
    IF relay.avail[x] - relay.rd[x] > ChunkSize
        THEN SubSeq(relay.src[x], relay.rd[x] + 2, relay.rd[x] + ChunkSize)
        ELSE SubSeq(relay.src[x], relay.rd[x] + 1, relay.avail[x])

\* The chunk reader.read(8192) returns: what is buffered, at most 8192 bytes.
Chunk(x) ==
    SubSeq(relay.src[x], relay.rd[x] + 1,
           IF relay.avail[x] - relay.rd[x] > ChunkSize
               THEN relay.rd[x] + ChunkSize ELSE relay.avail[x])

\* The peer's next byte arrives in x's reader.
Arrive(x) ==
    /\ relay.pc[x] # "none" /\ relay.ended[x] = "open" /\ ~relay.closed[x]
    /\ relay.avail[x] < Len(relay.src[x])
    /\ relay' = [relay EXCEPT !.avail[x] = @ + 1]
    /\ UNCHANGED <<lifecycle, conn, http, ssh, store>>

\* The peer has sent everything and shuts its side down: feed_eof.
FeedEof(x) ==
    /\ relay.pc[x] # "none" /\ relay.ended[x] = "open" /\ ~relay.closed[x]
    /\ relay.avail[x] = Len(relay.src[x])
    /\ relay' = [relay EXCEPT !.ended[x] = "eof"]
    /\ UNCHANGED <<lifecycle, conn, http, ssh, store>>

\* The connection of x breaks: connection_lost(exc) sets the reader's
\* exception.
Reset(x) ==
    /\ relay.pc[x] # "none" /\ relay.ended[x] # "err" /\ ~relay.returned
    /\ relay' = [relay EXCEPT !.ended[x] = "err"]
    /\ UNCHANGED <<lifecycle, conn, http, ssh, store>>

\* (mutant) the writer is closed only when the loop ended on EOF: no finally.
FwdRead_NoFinally(x) ==
    /\ relay.pc[x] = "read"
    /\ IF relay.ended[x] = "err"
           THEN relay' = [relay EXCEPT !.pc[x] = "done"]
       ELSE IF relay.avail[x] > relay.rd[x]
           THEN relay' = [relay EXCEPT !.hold[x] = Chunk(x),
                                       !.rd[x] = @ + Len(Chunk(x)),
                                       !.pc[x] = "write"]
       ELSE /\ relay.ended[x] = "eof"
            /\ relay' = [relay EXCEPT !.pc[x] = "close"]
    /\ UNCHANGED <<lifecycle, conn, http, ssh, store>>

\* forward, data = await reader.read(8192): the reader's exception is raised
\* first (swallowed by the bare except), then buffered data is returned, then
\* b'' at EOF breaks the loop; otherwise the read waits.
FwdRead(x) ==
    /\ relay.pc[x] = "read"
    /\ IF relay.ended[x] = "err"
           THEN relay' = [relay EXCEPT !.pc[x] = "close"]
       ELSE IF relay.avail[x] > relay.rd[x]
           THEN relay' = [relay EXCEPT !.hold[x] = Chunk(x),
                                       !.rd[x] = @ + Len(Chunk(x)),
                                       !.pc[x] = "write"]
       ELSE /\ relay.ended[x] = "eof"
            /\ relay' = [relay EXCEPT !.pc[x] = "close"]
    /\ UNCHANGED <<lifecycle, conn, http, ssh, store>>

\* forward, writer.write(data).
FwdWrite(x) ==
    /\ relay.pc[x] = "write"
    /\ relay' = [relay EXCEPT !.got[Other(x)] = @ \o relay.hold[x],
                              !.hold[x] = <<>>,
                              !.pc[x] = "drain"]
    /\ UNCHANGED <<lifecycle, conn, http, ssh, store>>

\* (mutant) a drain that raises ends the copy loop without the finally
\* clause: the writer is not closed.
FwdDrain_NoClose(x) ==
    /\ relay.pc[x] = "drain"
    /\ relay' = [relay EXCEPT
                    !.pc[x] = IF relay.ended[Other(x)] = "err"
                                  THEN "done" ELSE "read"]
    /\ UNCHANGED <<lifecycle, conn, http, ssh, store>>

\* forward, await writer.drain(): raises when the writer's connection is
\* lost, else the loop reads again.
FwdDrain(x) ==
    /\ relay.pc[x] = "drain"
    /\ relay' = [relay EXCEPT
                    !.pc[x] = IF relay.ended[Other(x)] = "err"
                                  THEN "close" ELSE "read"]
    /\ UNCHANGED <<lifecycle, conn, http, ssh, store>>

\* forward, finally: writer.close().  Closing the transport ends its own
\* reader too: connection_lost(None) feeds EOF, whatever the peer still had to
\* send.
FwdClose(x) ==
    /\ relay.pc[x] = "close"
    /\ relay' = [relay EXCEPT
                    !.closed[Other(x)] = TRUE,
                    !.ended[Other(x)] = IF @ = "open" THEN "eof" ELSE @,
                    !.pc[x] = "wait_closed"]
    /\ UNCHANGED <<lifecycle, conn, http, ssh, store>>

\* forward, finally: await writer.wait_closed() returns, or raises the
\* exception the connection was lost with, which the inner bare except
\* swallows.
FwdWaitClosed(x) ==
    /\ relay.pc[x] = "wait_closed"
    /\ relay' = [relay EXCEPT
                    !.closeRaised[x] = relay.ended[Other(x)] = "err",
                    !.pc[x] = "done"]
    /\ UNCHANGED <<lifecycle, conn, http, ssh, store>>

\* gather returns when both copy loops are done.
RelayReturn ==
    /\ \A x \in Sides : relay.pc[x] = "done"
    /\ ~relay.returned
    /\ relay' = [relay EXCEPT !.returned = TRUE,
                              !.outcome = IF relay.cancelReq THEN "cancelled"
                                          ELSE "returned"]
    /\ UNCHANGED <<lifecycle, conn, http, ssh, store>>

\* The task that awaits gather is cancelled: gather cancels every copy loop
\* that has not ended, and raises CancelledError itself once all have ended.
RelayCancel ==
    /\ \E x \in Sides : relay.pc[x] \notin {"none", "done"}
    /\ ~relay.cancelReq
    /\ relay' = [relay EXCEPT
                    !.cancelReq = TRUE,
                    !.cancelPending = [x \in Sides |-> relay.pc[x] # "done"]]
    /\ UNCHANGED <<lifecycle, conn, http, ssh, store>>

\* CancelledError is raised in forward(x) at the await it is suspended in.
\* In read or drain the bare `except: pass` of line 297 catches it and the
\* finally clause goes on to close the writer; in wait_closed the inner bare
\* except of line 303 catches it.  Either way forward returns normally.
FwdCancelled(x) ==
    /\ relay.cancelPending[x]
    /\ relay.pc[x] \in {"read", "drain", "wait_closed"}
    /\ relay' = [relay EXCEPT
                    !.cancelPending[x] = FALSE,
                    !.swallowed[x] = TRUE,
                    !.pc[x] = IF relay.pc[x] = "wait_closed" THEN "done" ELSE "close"]
    /\ UNCHANGED <<lifecycle, conn, http, ssh, store>>

(* ------------- _run_ssh_tunnel: the child exited during startup -------- *)

\* A byte of stderr that is no valid UTF-8.
BadByte == "\\xff"

\* bytes.decode('utf-8', errors='ignore'): invalid bytes are dropped.
decode_ignore(b) == SelectSeq(b, LAMBDA c : c # BadByte)

\* `sub in text`.
Contains(text, sub) ==
    \E i \in 1..(Len(text) - Len(sub) + 1) :
        SubSeq(text, i, i + Len(sub) - 1) = sub

PermissionDenied == <<"P", "e", "r", "m", "i", "s", "s", "i", "o", "n", " ", "d", "e", "n", "i", "e", "d">>
Publickey == <<"p", "u", "b", "l", "i", "c", "k", "e", "y">>
ConnectionRefused == <<"C", "o", "n", "n", "e", "c", "t", "i", "o", "n", " ", "r", "e", "f", "u", "s", "e", "d">>
NoRouteToHost == <<"N", "o", " ", "r", "o", "u", "t", "e", " ", "t", "o", " ", "h", "o", "s", "t">>
ConnectionTimedOut == <<"C", "o", "n", "n", "e", "c", "t", "i", "o", "n", " ", "t", "i", "m", "e", "d", " ", "o", "u", "t">>

\* (mutant) 'Connection refused' is looked for first.
Classify_RefusedFirst(error_msg) ==
    IF Contains(error_msg, ConnectionRefused) THEN "refused"
    ELSE IF Contains(error_msg, PermissionDenied) \/ Contains(error_msg, Publickey)
        THEN "auth"
    ELSE IF Contains(error_msg, NoRouteToHost) \/ Contains(error_msg, ConnectionTimedOut)
        THEN "unreachable"
    ELSE "generic"

\* The if/elif chain of lines 76-84: which error is logged.
Classify(error_msg) ==
    IF Contains(error_msg, PermissionDenied) \/ Contains(error_msg, Publickey)
        THEN "auth"
    ELSE IF Contains(error_msg, ConnectionRefused) THEN "refused"
    ELSE IF Contains(error_msg, NoRouteToHost) \/ Contains(error_msg, ConnectionTimedOut)
        THEN "unreachable"
    ELSE "generic"

\* No exited child.  pc: "exited" (returncode is set, found at the top of a
\* probe iteration), "read" (stderr was read, decoded and stripped), "logged"
\* (the chain logged `log`), "raised" (`raised` left _run_ssh_tunnel).
NoSsh == [pc |-> "none", stderr |-> <<>>, error_msg |-> <<>>, log |-> "none",
          raised |-> <<>>]

NewSsh(bytes) == [NoSsh EXCEPT !.pc = "exited", !.stderr = bytes]

\* stderr = await self._ssh_process.stderr.read(); decode, strip.
SshReadStderr ==
    /\ ssh.pc = "exited"
    /\ ssh' = [ssh EXCEPT !.pc = "read",
                          !.error_msg = strip(decode_ignore(ssh.stderr))]
    /\ UNCHANGED <<lifecycle, conn, http, relay, store>>

\* The if/elif chain logs one of the four errors.
SshClassify ==
    /\ ssh.pc = "read"
    /\ ssh' = [ssh EXCEPT !.pc = "logged", !.log = Classify(ssh.error_msg)]
    /\ UNCHANGED <<lifecycle, conn, http, relay, store>>

\* raise RuntimeError(f"SSH connection failed: {error_msg}"); the outer
\* except Exception logs and re-raises it.
SshRaise ==
    /\ ssh.pc = "logged"
    /\ ssh' = [ssh EXCEPT !.pc = "raised",
                          !.raised = <<"RuntimeError", "SSH connection failed: ">>
                                        \o ssh.error_msg]
    /\ UNCHANGED <<lifecycle, conn, http, relay, store>>

(* ---------------------------- specification --------------------------- *)

Init ==
    /\ running = [n \in Names |-> 0]
    /\ loop = "unset"
    /\ ret = Ret("none", "", "none")
    /\ inst = <<>>
    /\ ready = <<>>
    /\ calls = 0
    /\ conn = NoConn
    /\ http = NoHttp
    /\ relay = NoRelay
    /\ ssh = NoSsh
    /\ store = NoStore

Next ==
    \/ \E l \in {"open", "closed"} : SetEventLoop(l)
    \/ \E n \in Names, c \in Configs : StartProxy(n, c)
    \/ \E n \in Names : StopProxy(n)
    \/ LoopStep
    \/ \E i \in Inst : TaskIO(i)
    \/ \E i \in Inst : ChildExits(i)
    \/ \E i \in Inst : ServerDies(i)

Spec == Init /\ [][Next]_vars

\* The timers and reads a run-loop task waits for do complete: the 0.5 s and
\* 2 s timeouts fire, the stderr of an exited child reaches EOF.
FairTunnel == \A i \in 1..MaxInst : WF_vars(i \in Inst /\ TaskIO(i))

(* -------------------- instance-level specification -------------------- *)

\* A caller on the loop's thread awaits, or schedules, start() / stop() of an
\* instance directly, in any order.
CallStart(i) ==
    /\ calls < MaxCalls
    /\ calls' = calls + 1
    /\ ready' = Append(ready, <<"start", i>>)
    /\ UNCHANGED <<running, loop, ret, inst, conn, http, relay, ssh, store>>

CallStop(i) ==
    /\ calls < MaxCalls
    /\ calls' = calls + 1
    /\ ready' = Append(ready, <<"stop", i>>)
    /\ UNCHANGED <<running, loop, ret, inst, conn, http, relay, ssh, store>>

\* One constructed instance of any valid config, in no registry.
InitInst ==
    /\ running = [n \in Names |-> 0]
    /\ loop = "open"
    /\ ret = Ret("none", "", "none")
    /\ \E c \in Configs \ {BadConfig} : inst = <<NewProxy("a", c)>>
    /\ ready = <<>>
    /\ calls = 0
    /\ conn = NoConn
    /\ http = NoHttp
    /\ relay = NoRelay
    /\ ssh = NoSsh
    /\ store = NoStore

NextInst ==
    \/ \E i \in Inst : CallStart(i)
    \/ \E i \in Inst : CallStop(i)
    \/ LoopStep
    \/ \E i \in Inst : TaskIO(i)
    \/ \E i \in Inst : ChildExits(i)
    \/ \E i \in Inst : ServerDies(i)

SpecInst == InitInst /\ [][NextInst]_vars

SpecInstFair == SpecInst /\ FairTunnel

(* -------------------- connection-level specification ------------------ *)

\* Method lists of up to MaxMethods methods: no authentication, user/password,
\* and the reserved FF.
RECURSIVE SeqsUpTo(_, _)
SeqsUpTo(S, k) ==
    IF k = 0 THEN {<<>>}
    ELSE LET shorter == SeqsUpTo(S, k - 1)
         IN  shorter \cup {Append(q, x) : q \in shorter, x \in S}

MethodLists == SeqsUpTo({0, 2, 255}, MaxMethods)

\* Greetings of SOCKS versions 4 and 5.
Greetings == {<<v, Len(m)>> \o m : v \in {4, 5}, m \in MethodLists}

\* Address type and address bytes: IPv4, domain names (plain, empty, with a
\* two-byte character, not UTF-8, cut off inside a character), IPv6, and the
\* types 0, 2 and 5 that SOCKS5 does not define.
Addresses ==
    { <<1, 127, 0, 0, 1>>,
      <<1, 10, 255, 1, 0>>,
      <<3, 3, 97, 46, 98>>,
      <<3, 0>>,
      <<3, 3, 97, 195, 169>>,
      <<3, 1, 255>>,
      <<3, 2, 97, 195>>,
      <<4, 32, 1, 13, 184, 0, 0, 0, 0, 0, 0, 0, 0, 0, 0, 0, 1>>,
      <<4, 254, 128, 0, 0, 0, 0, 0, 0, 2, 0, 94, 255, 254, 0, 83, 10>>,
      <<0>>, <<2>>, <<5, 1, 2, 3, 4>> }

PortBytes == {<<0, 80>>, <<1, 187>>, <<255, 255>>}

\* Requests: CONNECT and BIND of version 5 to every address, UDP ASSOCIATE
\* and command 0 to one, and one request of version 4.
Requests ==
    {<<5, cmd, 0>> \o a \o p : cmd \in {1, 2}, a \in Addresses, p \in PortBytes}
    \cup {<<5, 3, 0, 1, 127, 0, 0, 1, 0, 80>>, <<5, 0, 0, 3, 1, 97, 0, 80>>}
    \cup {<<4, 1, 0, 1, 127, 0, 0, 1, 0, 80>>}

\* What a client sends: a greeting and a request, or any beginning of them.
Streams == {g \o r : g \in Greetings, r \in Requests}
Inputs == UNION {{SubSeq(s, 1, k) : k \in 0..Len(s)} : s \in Streams}

InitSocks ==
    /\ running = [n \in Names |-> 0]
    /\ loop = "open"
    /\ ret = Ret("none", "", "none")
    /\ inst = <<>>
    /\ ready = <<>>
    /\ calls = 0
    /\ \E s \in Inputs, e \in BOOLEAN : conn = NewConn(s, e)
    /\ http = NoHttp
    /\ relay = NoRelay
    /\ ssh = NoSsh
    /\ store = NoStore

NextSocks ==
    \/ HsHead
    \/ HsMethods
    \/ HsDrain
    \/ RqHead
    \/ RqDrain
    \/ RqALen
    \/ RqAddr
    \/ RqPort
    \/ Connect
    \/ ReplyDrain
    \/ RelayEnds
    \/ Close
    \/ ConnLost

SpecSocks == InitSocks /\ [][NextSocks]_vars

\* The steps of the handler itself, which the event loop runs whenever they
\* can be taken; a connection loss is the outside world's.
HandlerStep ==
    \/ HsHead \/ HsMethods \/ HsDrain \/ RqHead \/ RqDrain \/ RqALen
    \/ RqAddr \/ RqPort \/ Connect \/ ReplyDrain \/ RelayEnds \/ Close

SpecSocksFair == SpecSocks /\ WF_vars(HandlerStep)

(* -------------------- HTTP connection specification ------------------ *)

\* Request lines, without their line end: CONNECT with a port, without one,
\* with a port that is no number and with two colons; a lower-case connect;
\* GET and POST with an absolute URL, with a port, with a path only; a line of
\* one word, an empty line, and a line with surrounding blanks.
RequestLines ==
    { <<"C", "O", "N", "N", "E", "C", "T", " ", "h", ":", "4", "4", "3", " ", "H", "T", "T", "P", "/", "1", ".", "1">>,
      <<"C", "O", "N", "N", "E", "C", "T", " ", "h", " ", "H", "T", "T", "P", "/", "1", ".", "1">>,
      <<"C", "O", "N", "N", "E", "C", "T", " ", "h", ":", "x", " ", "H", "T", "T", "P", "/", "1", ".", "1">>,
      <<"C", "O", "N", "N", "E", "C", "T", " ", "a", ":", "b", ":", "8", " ", "H", "T", "T", "P", "/", "1", ".", "1">>,
      <<"c", "o", "n", "n", "e", "c", "t", " ", "h", ":", "1", " ", "H", "T", "T", "P", "/", "1", ".", "1">>,
      <<"G", "E", "T", " ", "h", "t", "t", "p", ":", "/", "/", "h", "/", "p", " ", "H", "T", "T", "P", "/", "1", ".", "1">>,
      <<"G", "E", "T", " ", "h", "t", "t", "p", ":", "/", "/", "h", ":", "8", "1", " ", "H", "T", "T", "P", "/", "1", ".", "1">>,
      <<"P", "O", "S", "T", " ", "h", ":", "8", "/", "a", "/", "b", " ", "H", "T", "T", "P", "/", "1", ".", "1">>,
      <<"G", "E", "T", " ", "/", "p">>,
      <<"G", "E", "T">>,
      <<>>,
      <<" ", "C", "O", "N", "N", "E", "C", "T", " ", " ", "h", ":", "2", "2", " ">> }

\* Header sections, without the line that ends them: none, a Host header, a
\* Proxy-Connection header, a header repeated in two spellings and with "\n"
\* line ends, and a line without a colon.
HeaderBlocks ==
    { <<>>,
      <<"H", "o", "s", "t", ":", " ", "h", "\r", "\n">>,
      <<"P", "r", "o", "x", "y", "-", "C", "o", "n", "n", "e", "c", "t", "i", "o", "n", ":", " ", "k", "\r", "\n", "X", ":", " ", "1", "\r", "\n">>,
      <<"X", ":", " ", "1", "\n", "x", " ", ":", " ", "2", "\r", "\n", "X", ":", "3", "\r", "\n">>,
      <<"n", "o", "v", "a", "l", "u", "e", "\r", "\n">> }

\* What a client sends: request line, headers, the empty line (either form)
\* and two more characters; or any beginning of that.
HttpStreams ==
    {l \o e1 \o h \o e2 \o <<"z", "z">> :
        l \in RequestLines, e1 \in {CRLF, LF}, h \in HeaderBlocks, e2 \in {CRLF, LF}}
HttpInputs == UNION {{SubSeq(s, 1, k) : k \in 0..Len(s)} : s \in HttpStreams}

InitHttp ==
    /\ running = [n \in Names |-> 0]
    /\ loop = "open"
    /\ ret = Ret("none", "", "none")
    /\ inst = <<>>
    /\ ready = <<>>
    /\ calls = 0
    /\ conn = NoConn
    /\ \E s \in HttpInputs, e \in BOOLEAN : http = NewHttp(s, e)
    /\ relay = NoRelay
    /\ ssh = NoSsh
    /\ store = NoStore

NextHttp ==
    \/ HttpLine
    \/ HttpHeader
    \/ HttpConnect
    \/ HttpConnectDrain
    \/ HttpRelayDeliver
    \/ HttpRelayEnds
    \/ HttpPlainConnect
    \/ HttpPlainDrain
    \/ HttpPlainRead
    \/ HttpPlainClientDrain
    \/ HttpClose
    \/ HttpLost

SpecHttp == InitHttp /\ [][NextHttp]_vars

(* One connection accepted by a serving direct instance: the instance is in
   its serving loop, and the handler of its class runs on the connection. *)

\* The instance once start_server has returned and the loop waits.
ServingProxy(c) ==
    [NewProxy("a", c) EXCEPT !.is_running = TRUE, !.tpc = "serve",
                             !.ntasks = 1, !.server = TRUE,
                             !.listener = "serving",
                             !.nStart = 1, !.lastStart = "launched"]

InitHandlers ==
    /\ running = [n \in Names |-> IF n = "a" THEN 1 ELSE 0]
    /\ loop = "open"
    /\ ret = Ret("start", "a", "ok")
    /\ ready = <<>>
    /\ calls = 0
    /\ relay = NoRelay
    /\ ssh = NoSsh
    /\ store = NoStore
    /\ \/ /\ inst = <<ServingProxy([ptype |-> "socks5", ssh |-> FALSE, port |-> 1])>>
          /\ \E s \in Inputs, e \in BOOLEAN : conn = NewConn(s, e)
          /\ http = NoHttp
       \/ /\ inst = <<ServingProxy([ptype |-> "http", ssh |-> FALSE, port |-> 2])>>
          /\ conn = NoConn
          /\ \E s \in HttpInputs, e \in BOOLEAN : http = NewHttp(s, e)

NextHandlers == NextSocks \/ NextHttp

SpecHandlers == InitHandlers /\ [][NextHandlers]_vars

(* A serving direct instance with one accepted connection, and stop() calls
   on the instance.  Server.close() closes the listening socket only: nothing
   in stop(), in the run-loop or in asyncio's Server (Python 3.11) touches the
   handler task of an accepted connection or its streams. *)

\* What the client of the accepted connection sends: a SOCKS5 greeting and a
\* request (CONNECT to an IPv4 address or a domain name, or BIND), complete or
\* cut short after the greeting.
ServeInputs ==
    UNION {{SubSeq(s, 1, k) : k \in {3, Len(s)}} :
              s \in { <<5, 1, 0, 5, 1, 0, 1, 127, 0, 0, 1, 0, 80>>,
                      <<5, 1, 0, 5, 1, 0, 3, 3, 97, 46, 98, 0, 80>>,
                      <<5, 1, 0, 5, 2, 0, 1, 127, 0, 0, 1, 0, 80>> }}

\* ... or an HTTP request: CONNECT, or GET with a Host header.
ServeHttpInputs ==
    { <<"C", "O", "N", "N", "E", "C", "T", " ", "h", ":", "4", "4", "3", " ",
        "H", "T", "T", "P", "/", "1", ".", "1">> \o CRLF \o CRLF,
      <<"G", "E", "T", " ", "h", "t", "t", "p", ":", "/", "/", "h", "/", "p", " ",
        "H", "T", "T", "P", "/", "1", ".", "1">> \o CRLF
        \o <<"H", "o", "s", "t", ":", " ", "h">> \o CRLF \o CRLF }

InitServe ==
    /\ running = [n \in Names |-> IF n = "a" THEN 1 ELSE 0]
    /\ loop = "open"
    /\ ret = Ret("start", "a", "ok")
    /\ ready = <<>>
    /\ calls = 0
    /\ relay = NoRelay
    /\ ssh = NoSsh
    /\ store = NoStore
    /\ \/ /\ inst = <<ServingProxy([ptype |-> "socks5", ssh |-> FALSE, port |-> 1])>>
          /\ \E s \in ServeInputs, e \in BOOLEAN : conn = NewConn(s, e)
          /\ http = NoHttp
       \/ /\ inst = <<ServingProxy([ptype |-> "http", ssh |-> FALSE, port |-> 2])>>
          /\ conn = NoConn
          /\ \E s \in ServeHttpInputs, e \in BOOLEAN : http = NewHttp(s, e)

NextServe ==
    \/ NextSocks
    \/ NextHttp
    \/ CallStop(1)
    \/ LoopStep
    \/ TaskIO(1)
    \/ ServerDies(1)

SpecServe == InitServe /\ [][NextServe]_vars

(* The config service over every config file that parses. *)
InitConfig ==
    /\ running = [n \in Names |-> 0]
    /\ loop = "unset"
    /\ ret = Ret("none", "", "none")
    /\ inst = <<>>
    /\ ready = <<>>
    /\ calls = 0
    /\ conn = NoConn
    /\ http = NoHttp
    /\ relay = NoRelay
    /\ ssh = NoSsh
    /\ \E f \in Dicts : store = [NoStore EXCEPT !.file = f]

NextConfig ==
    \/ ConfigInit
    \/ \E n \in ConfigNames, e \in Endpoints, kw \in BOOLEAN : AddProxy(n, e, kw)
    \/ \E n \in ConfigNames : RemoveProxy(n)
    \/ \E n, m \in ConfigNames, e \in Endpoints : EditProxy(n, m, e)

SpecConfig == InitConfig /\ [][NextConfig]_vars

\* The relay on its own: every pair of payloads up to MaxPayload bytes, each
\* byte distinct so that a dropped, repeated or moved byte shows.
PayloadA(k) == [i \in 1..k |-> i]
PayloadB(k) == [i \in 1..k |-> 10 + i]

InitRelay ==
    /\ running = [n \in Names |-> 0]
    /\ loop = "open"
    /\ ret = Ret("none", "", "none")
    /\ inst = <<>>
    /\ ready = <<>>
    /\ calls = 0
    /\ conn = NoConn
    /\ http = NoHttp
    /\ \E ka \in 0..MaxPayload, kb \in 0..MaxPayload :
           relay = NewRelay(PayloadA(ka), PayloadB(kb))
    /\ ssh = NoSsh
    /\ store = NoStore

NextRelay ==
    \/ \E x \in Sides : Arrive(x)
    \/ \E x \in Sides : FeedEof(x)
    \/ \E x \in Sides : Reset(x)
    \/ \E x \in Sides : FwdRead(x)
    \/ \E x \in Sides : FwdWrite(x)
    \/ \E x \in Sides : FwdDrain(x)
    \/ \E x \in Sides : FwdClose(x)
    \/ \E x \in Sides : FwdWaitClosed(x)
    \/ RelayReturn
    \/ RelayCancel
    \/ \E x \in Sides : FwdCancelled(x)

SpecRelay == InitRelay /\ [][NextRelay]_vars

\* The event loop runs every copy loop that can go on; peers owe nothing.
FairRelay ==
    \A x \in Sides :
        /\ WF_vars(FwdRead(x)) /\ WF_vars(FwdWrite(x)) /\ WF_vars(FwdDrain(x))
        /\ WF_vars(FwdClose(x)) /\ WF_vars(FwdWaitClosed(x))
        /\ WF_vars(FwdCancelled(x))

SpecRelayFair == SpecRelay /\ FairRelay

\* What an ssh child that gave up writes to stderr: up to two of these parts,
\* joined by ": ", as sent, with a trailing newline, or with an invalid byte
\* inside.
StderrParts ==
    { PermissionDenied, Publickey, ConnectionRefused, NoRouteToHost,
      ConnectionTimedOut, <<"p", "e", "r", "m", "i", "s", "s", "i", "o", "n", " ", "d", "e", "n", "i", "e", "d">>, <<"H", "o", "s", "t", " ", "k", "e", "y", " ", "v", "e", "r", "i", "f", "i", "c", "a", "t", "i", "o", "n", " ", "f", "a", "i", "l", "e", "d", ".">> }
StderrTexts ==
    {<<>>} \cup StderrParts
        \cup {a \o <<":", " ">> \o b : a \in StderrParts, b \in StderrParts}
StderrBytes ==
    StderrTexts
        \cup {t \o <<"\n">> : t \in StderrTexts}
        \cup {SubSeq(t, 1, 3) \o <<BadByte>> \o SubSeq(t, 4, Len(t)) :
                 t \in {u \in StderrTexts : Len(u) >= 3}}

InitSsh ==
    /\ running = [n \in Names |-> 0]
    /\ loop = "open"
    /\ ret = Ret("none", "", "none")
    /\ inst = <<>>
    /\ ready = <<>>
    /\ calls = 0
    /\ conn = NoConn
    /\ http = NoHttp
    /\ relay = NoRelay
    /\ \E b \in StderrBytes : ssh = NewSsh(b)
    /\ store = NoStore

NextSsh ==
    \/ SshReadStderr
    \/ SshClassify
    \/ SshRaise

SpecSsh == InitSsh /\ [][NextSsh]_vars

(* ============================== claims ================================ *)

\* An instance is live: unfinished run-loop task, open listener or running child.
Live(r) == TaskUnfinished(r) \/ r.listener = "serving" \/ r.child = "alive"

\* C1: when the run-loop of one instance raises, the failure is caught inside
\* that instance's task (the task ends normally with is_running cleared, no
\* exception leaves it), and the registry map and every other instance (its
\* lifecycle state, listener and child) stay exactly as they were.
C1_CrashIsolation ==
    [][\A i \in Inst :
          (~inst[i].failed /\ inst'[i].failed) =>
              /\ inst'[i].tpc = "done" /\ inst'[i].tend = "returned"
              /\ ~inst'[i].is_running
              /\ running' = running
              /\ Len(inst') = Len(inst)
              /\ \A j \in Inst : j # i => inst'[j] = inst[j]]_vars

\* C1 witness: an instance has failed while another one is serving.
C1_Witness ==
    \E i, j \in Inst :
        /\ i # j /\ inst[i].failed
        /\ inst[j].is_running /\ inst[j].listener = "serving"

\* C2: status queries follow the lifecycle: a name is reported running only
\* while its instance is running, and never once its run-loop has failed.
\* (Stated for an instance whose start() has run.)
C2_StatusFollowsLifecycle ==
    \A n \in Names :
        is_proxy_running(n) =>
            LET r == inst[running[n]]
            IN  ~r.failed /\ (r.nStart > 0 => r.is_running)

\* C3: at most one instance of a name is live at any time.
C3_OneLiveInstancePerName ==
    \A n \in Names :
        Cardinality({i \in Inst : inst[i].name = n /\ Live(inst[i])}) <= 1

C5_RegistryIdempotent ==
    [][/\ Len(inst') > Len(inst) => running[inst'[Len(inst')].name] = 0
       /\ (ret' # ret /\ ret'.out = "noop") =>
              running' = running /\ inst' = inst /\ ready' = ready
       /\ (Len(ready') = Len(ready) + 1 /\ ready'[Len(ready')][1] = "stop") =>
              LET i == ready'[Len(ready')][2]
              IN  running[inst[i].name] = i /\ running'[inst[i].name] = 0]_vars

\* C5 witness: a start_proxy for a running name returned as a no-op although
\* another instance could still have been constructed.
C5_Witness ==
    /\ ret = Ret("start", "", "noop")
    /\ Len(inst) < MaxInst
    /\ \E n \in Names : running[n] # 0

\* C6: start() run on an instance that is_running launches no task and changes
\* neither the stop event nor any other state of the instance; stop() run on
\* an instance that is not running sets no event, cancels nothing and changes
\* no state.  (nStart, nStop and lastStart, lastStop only record the call.)
C6_InstanceIdempotent ==
    [][\A i \in Inst :
          /\ (inst'[i].nStart > inst[i].nStart /\ inst[i].is_running) =>
                /\ inst'[i] = [inst[i] EXCEPT !.nStart = @ + 1, !.lastStart = "noop"]
                /\ ready' = Tail(ready)
          /\ (inst'[i].nStop > inst[i].nStop /\ ~inst[i].is_running) =>
                /\ inst'[i] = [inst[i] EXCEPT !.nStop = @ + 1, !.lastStop = "noop"]
                /\ ready' = Tail(ready)]_vars

\* C6 witness: both no-ops have happened on one instance, the start() while
\* its task was unfinished.
C6_Witness ==
    \E i \in Inst :
        /\ inst[i].lastStart = "noop" /\ inst[i].lastStop = "noop"
        /\ inst[i].ntasks = 1

\* C7: once stop() of a direct-mode instance that was running has returned,
\* the run-loop task has ended, no failure is recorded, the instance is not
\* running and its listener no longer holds the bind port.
C7_StopClosesListener ==
    \A i \in Inst :
        (inst[i].stopped /\ RunMode(inst[i].cfg) = "direct") =>
            /\ ~TaskUnfinished(inst[i])
            /\ ~inst[i].is_running
            /\ ~inst[i].failed
            /\ inst[i].listener # "serving"

\* C8: once stop() of a tunnel-mode instance has returned, no SSH child of
\* that instance is left running.
C8_ChildEndsWithInstance ==
    \A i \in Inst :
        (inst[i].stopped /\ RunMode(inst[i].cfg) = "tunnel") =>
            inst[i].child # "alive" /\ inst[i].orphans = 0


\* The input begins with a complete version-5 greeting.
V5Greeting(c) ==
    Len(c.input) >= 2 /\ c.input[1] = 5 /\ Len(c.input) >= 2 + c.input[2]

\* The methods that greeting offers.
Offered(c) == Range(SubSeq(c.input, 3, 2 + c.input[2]))

\* C9: for a greeting of version 5, whatever its method list: the handler
\* does not give up before it has read the greeting unless the connection
\* breaks.  Once it has read the greeting (and the connection did not break
\* before the reply): if the list contains 0 it has written exactly 05 00 as
\* its first reply and goes on to the request phase, unless the connection
\* breaks under that reply; if the list does not contain 0 it has written
\* exactly 05 FF and nothing else, never reaches the request phase, closes,
\* and has read not one byte beyond the greeting.
C9_Greeting ==
    V5Greeting(conn) =>
        LET n == conn.input[2]
            read == conn.pos >= 2 + n /\ conn.pc # "hs_methods"
            broke == conn.lost /\ conn.out = <<>> /\ conn.pc \in {"closing", "closed"}
        IN  /\ (conn.pc \in {"closing", "closed"} /\ ~conn.lost) => read
            /\ (read /\ ~broke /\ 0 \in Offered(conn)) =>
                  /\ Len(conn.out) >= 2 /\ SubSeq(conn.out, 1, 2) = <<5, 0>>
                  /\ \/ conn.pc = "hs_drain_ok"
                     \/ conn.phase # "handshake"
                     \/ conn.lost
            /\ (read /\ ~broke /\ 0 \notin Offered(conn)) =>
                  /\ conn.out = <<5, 255>>
                  /\ conn.pc \in {"hs_drain_no", "closing", "closed"}
            /\ (read /\ 0 \notin Offered(conn)) =>
                  /\ conn.pos = 2 + n
                  /\ conn.phase = "handshake"

\* C9 witness: a greeting offering methods, none of them 0, was answered with
\* 05 FF and the connection closed with the client's next bytes unread.
C9_Witness ==
    /\ V5Greeting(conn) /\ conn.input[2] >= 1 /\ 0 \notin Offered(conn)
    /\ conn.pc = "closed" /\ ~conn.lost
    /\ conn.out = <<5, 255>>
    /\ Len(conn.input) > conn.pos

\* The hosts of the generated addresses, written out.
KnownHost ==
    (<<127, 0, 0, 1>> :> "127.0.0.1")
    @@ (<<10, 255, 1, 0>> :> "10.255.1.0")
    @@ (<<97, 46, 98>> :> "a.b")
    @@ (<<>> :> "")
    @@ (<<97, 195, 169>> :> "a{U+00E9}")
    @@ (<<32, 1, 13, 184, 0, 0, 0, 0, 0, 0, 0, 0, 0, 0, 0, 1>>
           :> "2001:0db8:0000:0000:0000:0000:0000:0001")
    @@ (<<254, 128, 0, 0, 0, 0, 0, 0, 2, 0, 94, 255, 254, 0, 83, 10>>
           :> "fe80:0000:0000:0000:0200:5eff:fe00:530a")

\* The greeting was accepted and a CONNECT request header of version 5
\* follows it; h is where the request starts.
ReqStart(c) == 2 + c.input[2]
ConnectRequest(c) ==
    /\ V5Greeting(c) /\ 0 \in Offered(c)
    /\ Len(c.input) >= ReqStart(c) + 4
    /\ c.input[ReqStart(c) + 1] = 5 /\ c.input[ReqStart(c) + 2] = 1
ReqAtyp(c) == c.input[ReqStart(c) + 4]

\* Where the address bytes of the request start and how many they are (for a
\* name: after the length byte, as many as it says).
AddrStart(c) == ReqStart(c) + (IF ReqAtyp(c) = 3 THEN 5 ELSE 4)
AddrLen(c) ==
    CASE ReqAtyp(c) = 1 -> 4
      [] ReqAtyp(c) = 4 -> 16
      [] ReqAtyp(c) = 3 -> IF Len(c.input) >= ReqStart(c) + 5
                           THEN c.input[ReqStart(c) + 5] ELSE 0
      [] OTHER -> 0
ReqComplete(c) ==
    /\ ReqAtyp(c) = 3 => Len(c.input) >= ReqStart(c) + 5
    /\ Len(c.input) >= AddrStart(c) + AddrLen(c) + 2
AddrBytes(c) == SubSeq(c.input, AddrStart(c) + 1, AddrStart(c) + AddrLen(c))
PortHi(c) == c.input[AddrStart(c) + AddrLen(c) + 1]
PortLo(c) == c.input[AddrStart(c) + AddrLen(c) + 2]

\* C10: for a CONNECT request, a target is produced only for address types 1,
\* 3 and 4 of a complete request, and then its host is the dotted decimal of
\* the 4 bytes, the UTF-8 text of exactly the length-prefixed bytes, or the
\* eight colon-separated 4-digit hex words of the 16 bytes, and its port is
\* the next two bytes, high byte first; such a request always produces its
\* target unless the connection breaks; for every other address type no
\* target is produced, the reply after the greeting's is exactly
\* 05 08 00 01 00 00 00 00 00 00, nothing more of the request is read, and the
\* handler closes.
C10_AddressParsing ==
    ConnectRequest(conn) =>
        /\ conn.target # NoTarget =>
              /\ ReqAtyp(conn) \in {1, 3, 4} /\ ReqComplete(conn)
              /\ AddrBytes(conn) \in DOMAIN KnownHost
              /\ conn.target.host = KnownHost[AddrBytes(conn)]
              /\ conn.target.port = 256 * PortHi(conn) + PortLo(conn)
              /\ conn.pos = AddrStart(conn) + AddrLen(conn) + 2
        /\ ( /\ ReqAtyp(conn) \in {1, 3, 4} /\ ReqComplete(conn)
             /\ AddrBytes(conn) \in DOMAIN KnownHost
             /\ conn.pc \in {"closing", "closed"} /\ ~conn.lost ) =>
              conn.target # NoTarget
        /\ (ReqAtyp(conn) \notin {1, 3, 4} /\ conn.pos >= ReqStart(conn) + 4) =>
              /\ conn.target = NoTarget /\ conn.phase = "request"
              /\ conn.out = <<5, 0, 5, 8, 0, 1, 0, 0, 0, 0, 0, 0>>
              /\ conn.pos = ReqStart(conn) + 4
              /\ conn.pc \in {"rq_drain", "closing", "closed"}

\* C10 witness: an IPv6 CONNECT request has been parsed into its target.
C10_Witness ==
    /\ ConnectRequest(conn) /\ ReqAtyp(conn) = 4
    /\ conn.pc = "connect"
    /\ conn.target = [host |-> "fe80:0000:0000:0000:0200:5eff:fe00:530a",
                      port |-> 443]

\* C11: the upstream connect is tried only for a parsed CONNECT target.  If it
\* fails, the handler's reply after the greeting's is exactly
\* 05 05 00 01 00 00 00 00 00 00, it never relays, and it closes.  If it
\* succeeds, the reply is exactly 05 00 00 01 00 00 00 00 00 00 and the
\* handler goes on to the relay (unless the connection breaks under that
\* reply).  The success reply is written, and the relay entered, only after
\* a successful connect.
C11_UpstreamConnect ==
    /\ conn.upstream # "none" => conn.target # NoTarget
    /\ conn.upstream = "failed" =>
          /\ conn.out = <<5, 0, 5, 5, 0, 1, 0, 0, 0, 0, 0, 0>>
          /\ conn.phase # "relay"
          /\ conn.pc \in {"fail_drain", "closing", "closed"}
    /\ conn.upstream = "connected" =>
          /\ conn.out = <<5, 0, 5, 0, 0, 1, 0, 0, 0, 0, 0, 0>>
          /\ conn.pc = "ok_drain" \/ conn.phase = "relay" \/ conn.lost
    /\ conn.phase = "relay" => conn.upstream = "connected"
    /\ (Len(conn.out) >= 4 /\ SubSeq(conn.out, 3, 4) = <<5, 0>>) =>
          conn.upstream = "connected"

\* C11 witness: the upstream connect failed on an intact connection, the
\* refusal was written and the connection closed.
C11_Witness ==
    /\ conn.upstream = "failed" /\ ~conn.lost /\ conn.pc = "closed"
    /\ conn.out = <<5, 0, 5, 5, 0, 1, 0, 0, 0, 0, 0, 0>>

\* The greeting was accepted and a complete request header follows it.
RequestHeader(c) ==
    /\ V5Greeting(c) /\ 0 \in Offered(c)
    /\ Len(c.input) >= ReqStart(c) + 4

\* C12: for a request of version 5 whose command is not CONNECT (1): the
\* handler does not give up before it has read the request header unless the
\* connection breaks; once it has read the header, its reply after the
\* greeting's is exactly 05 07 00 01 00 00 00 00 00 00, it reads nothing more
\* of the request, produces no target, attempts no upstream connect, and
\* closes.
C12_UnsupportedCommand ==
    ( /\ RequestHeader(conn)
      /\ conn.input[ReqStart(conn) + 1] = 5
      /\ conn.input[ReqStart(conn) + 2] # 1 ) =>
        /\ (conn.pc \in {"closing", "closed"} /\ ~conn.lost) =>
              conn.pos >= ReqStart(conn) + 4
        /\ conn.pos >= ReqStart(conn) + 4 =>
              /\ conn.out = <<5, 0, 5, 7, 0, 1, 0, 0, 0, 0, 0, 0>>
              /\ conn.pos = ReqStart(conn) + 4
              /\ conn.target = NoTarget /\ conn.upstream = "none"
              /\ conn.pc \in {"rq_drain", "closing", "closed"}

\* C12 witness: a BIND request was answered with "command not supported" and
\* the connection closed with the rest of the request unread.
C12_Witness ==
    /\ RequestHeader(conn) /\ conn.input[ReqStart(conn) + 1] = 5
    /\ conn.input[ReqStart(conn) + 2] = 2
    /\ conn.pc = "closed" /\ ~conn.lost
    /\ conn.out = <<5, 0, 5, 7, 0, 1, 0, 0, 0, 0, 0, 0>>
    /\ Len(conn.input) > conn.pos

\* C13: for a CONNECT request: if the upstream connect fails, all the client
\* is sent is 'HTTP/1.1 502 Bad Gateway\r\n\r\n', no relay is started and the
\* handler closes; if it succeeds, the first thing the client is sent is
\* 'HTTP/1.1 200 Connection Established\r\n\r\n', everything after it is
\* relayed upstream data in order, and the handler goes on to the relay
\* (unless the connection breaks under the reply).  Nothing is written before
\* the connect, and the relay is entered only after a successful connect.
C13_HttpConnectOutcome ==
    http.method = CONNECT =>
        /\ http.upstream = "none" => http.out = <<>>
        /\ http.upstream = "failed" =>
              /\ http.out = <<"HTTP/1.1 502 Bad Gateway\r\n\r\n">>
              /\ http.phase # "relay" /\ http.rpos = 0
              /\ http.pc \in {"c_fail_drain", "closing", "closed"}
        /\ http.upstream = "connected" =>
              /\ Len(http.out) >= 1
              /\ http.out[1] = "HTTP/1.1 200 Connection Established\r\n\r\n"
              /\ Tail(http.out) = SubSeq(http.resp, 1, http.rpos)
              /\ http.pc = "c_ok_drain" \/ http.phase = "relay" \/ http.lost
        /\ http.phase = "relay" => http.upstream = "connected"

\* C13 witness: a CONNECT whose upstream connect failed was answered with 502
\* on an intact connection, and the connection closed.
C13_Witness ==
    /\ http.method = CONNECT /\ http.upstream = "failed"
    /\ http.pc = "closed" /\ ~http.lost
    /\ http.out = <<"HTTP/1.1 502 Bad Gateway\r\n\r\n">>

\* C14: in both directions of a relay, at every moment and for every pair of
\* payloads (empty ones and ones longer than one chunk included), the bytes
\* passed to B's writer are exactly the bytes read from A so far, in the order
\* read, none dropped, repeated or moved (a chunk just read and not yet
\* written is the only difference there can be), and the same from B to A.
C14_RelayRoundTrip ==
    \A x \in Sides :
        /\ relay.got[Other(x)] \o relay.hold[x]
              = SubSeq(relay.src[x], 1, relay.rd[x])
        /\ relay.pc[x] # "write" => relay.hold[x] = <<>>

\* C14 witness: both directions carried a payload longer than one chunk to the
\* end, and the relay returned.
C14_Witness ==
    /\ relay.returned
    /\ Len(relay.src["A"]) > ChunkSize /\ relay.got["B"] = relay.src["A"]
    /\ Len(relay.src["B"]) > ChunkSize /\ relay.got["A"] = relay.src["B"]

C16_StartupFailureClass ==
    LET m == ssh.error_msg
        auth == Contains(m, PermissionDenied) \/ Contains(m, Publickey)
        refused == Contains(m, ConnectionRefused)
        unreachable == Contains(m, NoRouteToHost) \/ Contains(m, ConnectionTimedOut)
    IN  /\ ssh.pc \in {"logged", "raised"} =>
              /\ auth => ssh.log = "auth"
              /\ ~auth /\ refused => ssh.log = "refused"
              /\ ~auth /\ ~refused /\ unreachable => ssh.log = "unreachable"
              /\ ~auth /\ ~refused /\ ~unreachable => ssh.log = "generic"
        /\ ssh.pc = "raised" =>
              /\ Len(ssh.raised) >= 2 /\ ssh.raised[1] = "RuntimeError"
              /\ ssh.raised[2] = "SSH connection failed: "
        /\ ssh.pc \in {"exited", "read", "logged"} => ENABLED NextSsh

\* C16 witness: a stderr text with both 'Connection refused' and 'Permission
\* denied' in it was classified as an authentication failure and the failure
\* was raised.
C16_Witness ==
    /\ ssh.pc = "raised" /\ ssh.log = "auth"
    /\ Contains(ssh.error_msg, ConnectionRefused)
    /\ Contains(ssh.error_msg, PermissionDenied)

\* Instance i is a direct-mode instance whose listen failed while another
\* instance's listener held its bind port.
PortConflict(i) ==
    /\ RunMode(inst[i].cfg) = "direct"
    /\ inst[i].failed /\ inst[i].listener = "none"
    /\ \E j \in Inst \ {i} :
          inst[j].listener = "serving" /\ inst[j].cfg.port = inst[i].cfg.port

\* C17: an instance whose listen failed on a port another live instance holds
\* is not reported as running, and its start did not return normally to the
\* caller.
C17_PortConflictSurfaced ==
    \A i \in Inst :
        PortConflict(i) =>
            /\ running[inst[i].name] # i
            /\ inst[i].lastStart # "started"

\* C17, the part that holds: the failed listen ends only the new instance's
\* task, without an exception leaving it, and the holder keeps serving.
C17_ConflictIsLocal ==
    [][\A i \in Inst :
          (~inst[i].failed /\ PortConflict(i)') =>
              /\ inst'[i].tpc = "done" /\ inst'[i].tend = "returned"
              /\ \A j \in Inst \ {i} : inst'[j] = inst[j]]_vars

\* The tunnel startup probe of instance r has concluded without a failure.
ProbeConcluded(r) ==
    r.tpc \in {"health", "health_err", "term_wait", "kill_wait"}

\* C18: an instance that reports Running has its listener bound (direct mode)
\* or has concluded its tunnel startup probe without a start failure (tunnel
\* mode).
C18_RunningMeansAccepting ==
    \A i \in Inst :
        inst[i].is_running =>
            CASE RunMode(inst[i].cfg) = "direct" -> inst[i].listener = "serving"
              [] RunMode(inst[i].cfg) = "tunnel" -> ProbeConcluded(inst[i])
              [] OTHER -> FALSE

\* C18, second half: no instance goes from reporting Running to a tunnel
\* start failure.
C18_FailedTunnelNeverRunning ==
    [][\A i \in Inst :
          (inst[i].tpc = "probe_err" /\ inst'[i].failed) => ~inst[i].is_running]_vars

\* C19: a greeting whose version byte is not 5 is answered with nothing: once
\* the handler has looked at it, it has written no byte, made no upstream
\* connect and is closing.  A request whose version byte is not 5 likewise:
\* once read, nothing has been written after the 05 00 of the greeting, no
\* upstream connect was made and the handler is closing.
C19_VersionCheck ==
    /\ ( /\ Len(conn.input) >= 2 /\ conn.input[1] # 5
         /\ conn.pc \notin {"none", "hs_head"} ) =>
            /\ conn.out = <<>>
            /\ conn.target = NoTarget /\ conn.upstream = "none"
            /\ conn.pc \in {"closing", "closed"}
    /\ ( /\ RequestHeader(conn) /\ conn.input[ReqStart(conn) + 1] # 5
         /\ conn.pos >= ReqStart(conn) + 4 ) =>
            /\ conn.out = <<5, 0>>
            /\ conn.pos = ReqStart(conn) + 4
            /\ conn.target = NoTarget /\ conn.upstream = "none"
            /\ conn.pc \in {"closing", "closed"}

\* C19 witness: after a good greeting a request of version 4 was read, and the
\* intact connection closed with 05 00 as all that was ever written.
C19_Witness ==
    /\ RequestHeader(conn) /\ conn.input[ReqStart(conn) + 1] = 4
    /\ conn.pos = ReqStart(conn) + 4
    /\ conn.pc = "closed" /\ ~conn.lost /\ conn.out = <<5, 0>>

\* C19 witness for the greeting: a greeting of version 4 that offers "no
\* authentication" was read and the intact connection closed unanswered.
C19_GreetingWitness ==
    /\ Len(conn.input) >= 3 /\ conn.input[1] = 4 /\ conn.input[3] = 0
    /\ conn.pos = 2 /\ conn.pc = "closed" /\ ~conn.lost /\ conn.out = <<>>

\* The client's stream ends inside the part that the handler reads next with
\* an exact length: the greeting head, the method list, the request header,
\* the length byte of a name, the address, or the port.
Truncated(c) ==
    \/ Len(c.input) < 2
    \/ c.input[1] = 5 /\ Len(c.input) < 2 + c.input[2]
    \/ /\ V5Greeting(c) /\ 0 \in Offered(c)
       /\ Len(c.input) < ReqStart(c) + 4
    \/ /\ ConnectRequest(c) /\ ReqAtyp(c) \in {1, 3, 4}
       /\ ~ReqComplete(c)

\* C20: when the client's stream has ended inside an exact-length read, the
\* handler never has a target, never connects upstream and never gets past the
\* request phase; and it ends: the connection is eventually closed.
C20_TruncatedInput ==
    /\ [](conn.eof /\ Truncated(conn) =>
              /\ conn.target = NoTarget /\ conn.upstream = "none"
              /\ conn.phase \in {"handshake", "request"})
    /\ (conn.eof /\ Truncated(conn)) ~> (conn.pc = "closed")

\* C20 witness: the stream ended inside the port of a CONNECT request, and the
\* intact connection was closed with the greeting's reply as all its output.
C20_Witness ==
    /\ conn.eof /\ ~conn.lost /\ ConnectRequest(conn)
    /\ ReqAtyp(conn) = 1 /\ Len(conn.input) = AddrStart(conn) + AddrLen(conn) + 1
    /\ conn.pc = "closed" /\ conn.out = <<5, 0>>

\* C21: within one SOCKS5 connection the phases come in the order greeting,
\* request, upstream connect, relay and none is entered twice; no byte after
\* the greeting is read before 05 00 was written; the upstream connect is made
\* only once the whole request has been read and turned into a target; and
\* the relay is entered only after the success reply was written.
C21_PhaseOrder ==
    /\ [](/\ (conn.pc # "none" /\ Len(conn.input) >= 2 /\ conn.pos > 2 + conn.input[2]) =>
                (Len(conn.out) >= 2 /\ SubSeq(conn.out, 1, 2) = <<5, 0>>)
          /\ conn.upstream # "none" =>
                /\ ConnectRequest(conn) /\ ReqComplete(conn)
                /\ conn.pos = AddrStart(conn) + AddrLen(conn) + 2
                /\ conn.target # NoTarget
          /\ conn.phase = "relay" =>
                conn.out = <<5, 0, 5, 0, 0, 1, 0, 0, 0, 0, 0, 0>>)
    /\ [][conn.phase' # conn.phase =>
             <<conn.phase, conn.phase'>> \in
                 { <<"handshake", "request">>, <<"request", "connect">>,
                   <<"connect", "relay">> }]_vars

\* C21 witness: an intact connection went through all four phases and its
\* relay has ended.
C21_Witness ==
    /\ conn.phase = "relay" /\ conn.pc = "closed" /\ ~conn.lost
    /\ conn.upstream = "connected"

\* C22: the header loop ends also for a client whose stream ends before the
\* empty line: the round of the loop that finds the stream at its end (the
\* connection intact) leaves the loop, towards the dispatch or the close.
C22_HeaderLoopEnds ==
    [][( /\ http.pc = "hdr" /\ http.eof /\ http.pos = Len(http.input)
         /\ ~http.lost /\ ~http'.lost ) =>
            http'.pc \in {"closing", "connect", "h_connect"}]_vars

\* C22, the part that holds: a header section is ended by "\r\n" as well as
\* by a bare "\n" line: whenever the handler is past the header loop, the line
\* it read last is one of the two.
C22_BothTerminators ==
    http.phase \in {"connect", "plain", "relay"} =>
        /\ http.pos >= 3 /\ http.input[http.pos] = "\n"
        /\ \/ http.input[http.pos - 1] = "\n"
           \/ http.input[http.pos - 1] = "\r" /\ http.input[http.pos - 2] = "\n"

\* The upstream of the generated CONNECT targets with a usable port, written
\* out: 'h:443', 'h', 'a:b:8', 'h:22'.
KnownConnectTarget ==
    (<<"h", ":", "4", "4", "3">> :> [host |-> <<"h">>, port |-> 443])
    @@ (<<"h">> :> [host |-> <<"h">>, port |-> 443])
    @@ (<<"a", ":", "b", ":", "8">> :> [host |-> <<"a", ":", "b">>, port |-> 8])
    @@ (<<"h", ":", "2", "2">> :> [host |-> <<"h">>, port |-> 22])

\* Upstream and forwarded path of the generated targets of other methods,
\* written out: 'h:1', 'http://h/p', 'http://h:81', 'h:8/a/b', '/p'.
KnownPlainTarget ==
    (<<"h", ":", "1">> :> [host |-> <<"h">>, port |-> 1, path |-> <<"/">>])
    @@ (<<"h", "t", "t", "p", ":", "/", "/", "h", "/", "p">> :> [host |-> <<"h">>, port |-> 80, path |-> <<"/", "p">>])
    @@ (<<"h", "t", "t", "p", ":", "/", "/", "h", ":", "8", "1">> :> [host |-> <<"h">>, port |-> 81, path |-> <<"/">>])
    @@ (<<"h", ":", "8", "/", "a", "/", "b">> :> [host |-> <<"h">>, port |-> 8, path |-> <<"/", "a", "/", "b">>])
    @@ (<<"/", "p">> :> [host |-> <<>>, port |-> 80, path |-> <<"/", "p">>])

\* The handler is at or past its upstream connect.
AtUpstream(c) == c.pc \in {"connect", "h_connect"} \/ c.upstream # "none"

\* C23: when the handler of a CONNECT request gets to its upstream connect,
\* host and port are those of the target 'host:port', or the target and 443
\* when it has no port; for any other method they are host and port of the
\* target without its 'http://' prefix and path, 80 when it has no port, and
\* the path is the part from the first '/' on, '/' when there is none.
C23_TargetParsing ==
    AtUpstream(http) =>
        IF http.method = CONNECT
        THEN /\ http.target \in DOMAIN KnownConnectTarget
             /\ http.host = KnownConnectTarget[http.target].host
             /\ http.port = KnownConnectTarget[http.target].port
        ELSE /\ http.target \in DOMAIN KnownPlainTarget
             /\ http.host = KnownPlainTarget[http.target].host
             /\ http.port = KnownPlainTarget[http.target].port
             /\ http.path = KnownPlainTarget[http.target].path

\* C23 witness: a request with an absolute URL, no port and a path got to its
\* upstream connect.
C23_Witness ==
    /\ http.method = <<"G", "E", "T">> /\ http.upstream = "connected"
    /\ http.target = <<"h", "t", "t", "p", ":", "/", "/", "h", "/", "p">>
    /\ http.host = <<"h">> /\ http.port = 80 /\ http.path = <<"/", "p">>

\* The lines of text t from position p on, each with its line end.
RECURSIVE LinesFrom(_, _)
LinesFrom(t, p) ==
    IF p >= Len(t) THEN <<>>
    ELSE IF Find(t, "\n", p + 1) = 0 THEN <<SubSeq(t, p + 1, Len(t))>>
    ELSE <<SubSeq(t, p + 1, Find(t, "\n", p + 1))>> \o LinesFrom(t, Find(t, "\n", p + 1))

\* The lines up to the first empty one.
RECURSIVE HeaderPart(_)
HeaderPart(ls) ==
    IF ls = <<>> \/ ls[1] \in {CRLF, LF} THEN <<>>
    ELSE <<ls[1]>> \o HeaderPart(Tail(ls))

\* The header lines the client sent: those after the request line, up to the
\* empty line.
ClientHeaderLines(c) == HeaderPart(Tail(LinesFrom(c.input, 0)))

\* Name and value of a header line.
HeaderName(l)  == strip(split1(strip(l), ":")[1])
HeaderValue(l) == strip(split1(strip(l), ":")[2])

C24_RestOfForwarding ==
    /\ [](http.method # CONNECT =>
            /\ http.fwd # <<>> =>
                  /\ http.upstream = "connected"
                  /\ startswith(http.fwd,
                                http.method \o <<" ">> \o http.path
                                   \o <<" ", "H", "T", "T", "P", "/", "1", ".", "1", "\r", "\n">>)
                  /\ ~Contains(Lower(http.fwd), ProxyConnection)
            /\ http.upstream = "connected" =>
                  /\ http.out = SubSeq(http.resp, 1, http.rpos)
                  /\ http.upClosed => (http.rpos = Len(http.resp) /\ ~http.respErr)
            /\ http.upstream = "failed" =>
                  /\ http.out = <<"HTTP/1.1 502 Bad Gateway\r\n\r\n">>
                  /\ http.fwd = <<>>)
    /\ [][( /\ http.pc = "h_read" /\ http'.pc # "h_read"
            /\ http.rpos = Len(http.resp) /\ ~http.respErr ) => http'.upClosed]_vars

\* C25: a copy loop that has ended after its reader reached end of stream,
\* with no error on either of its streams and no cancellation, has delivered
\* everything its peer sent: the end of the opposite loop has not cut it short.
C25_NoTruncation ==
    \A x \in Sides :
        ( /\ relay.pc[x] = "done" /\ relay.ended[x] = "eof"
          /\ relay.ended[Other(x)] # "err" /\ ~relay.cancelReq ) =>
            relay.got[Other(x)] = relay.src[x]

\* C25, the part that holds: the relay returns only after both copy loops
\* have ended.
C25_ReturnsAfterBoth ==
    relay.returned => \A x \in Sides : relay.pc[x] = "done"

\* C26: when the relay has returned, close() has been called on the writer
\* of the client stream and on the writer of the upstream stream, whether the
\* copy loops ended on end of stream or on an error.
C26_BothClosed ==
    relay.returned => \A x \in Sides : relay.closed[x]

\* C26 witness: a relay in which one stream broke and the other reached end
\* of stream has returned, uncancelled, with both writers closed.
C26_Witness ==
    /\ relay.returned /\ ~relay.cancelReq
    /\ relay.ended["A"] = "err" /\ relay.ended["B"] = "eof"
    /\ relay.closed["A"] /\ relay.closed["B"]

\* C27: no copy loop catches a cancellation and goes on.
C27_CancelNotSwallowed ==
    \A x \in Sides : ~relay.swallowed[x]

\* C27, the part that holds: a relay cancelled as a whole ends by raising
\* CancelledError to its caller.
C27_RelayCancelPropagates ==
    (relay.returned /\ relay.cancelReq) => relay.outcome = "cancelled"

(* ---------------------------------------------------------------------- *)
(* C28  The startup probe of the SSH tunnel is bounded: it performs at    *)
(*      most 20 ticks (tick counts the ticks completed, 0..19 while the   *)
(*      probe runs, and goes up one at a time); the tunnel is marked      *)
(*      established only by a probe whose try block ran through, and that *)
(*      probe is the last: the supervisor goes on to the health loop (to  *)
(*      the cleanup if the stop event is set meanwhile); the probe loop   *)
(*      is left without success only after the sleep of the 20th tick,    *)
(*      and then, with no stop requested, the health loop is entered with *)
(*      the tunnel not established (the warning is logged), whether or    *)
(*      not the child has exited during that last sleep.                  *)
(* ---------------------------------------------------------------------- *)
Probing(r) == r.tpc \in {"probe_conn", "probe_sleep", "probe_err"}

C28_ProbeBounded ==
    [][\A i \in Inst :
          LET r == inst[i]
              s == inst'[i]
          IN  /\ Probing(r) => r.tick < ProbeTicks
              /\ (Probing(r) /\ Probing(s)) => s.tick \in {r.tick, r.tick + 1}
              /\ (~r.established /\ s.established) =>
                    /\ r.tpc = "probe_conn"
                    /\ ~Probing(s)
                    /\ ~r.stop_event => s.tpc = "health"
              /\ (r.tpc = "probe_conn" /\ s.tpc = "health") => s.established
              /\ (r.tpc = "probe_sleep" /\ s.tpc = "health") =>
                    r.tick = ProbeTicks - 1 /\ ~s.established
              /\ ( /\ r.tpc = "probe_sleep" /\ r.tick = ProbeTicks - 1
                    /\ s.tpc # "probe_sleep" /\ ~r.stop_event ) =>
                    s.tpc = "health" /\ ~s.established /\ s.is_running
       ]_vars

\* The budget was exhausted: the health loop runs with the tunnel not
\* established, the child alive and no stop requested.
C28_Witness ==
    \E i \in Inst :
        /\ inst[i].tpc = "health" /\ ~inst[i].established
        /\ inst[i].child = "alive" /\ ~inst[i].stop_event /\ inst[i].is_running

\* A probe succeeded before the budget was used up.
C28_WitnessEarly ==
    \E i \in Inst :
        /\ inst[i].tpc = "health" /\ inst[i].established
        /\ inst[i].child = "alive" /\ ~inst[i].stop_event

(* ---------------------------------------------------------------------- *)
(* C29  SSH exit during startup: every tick of the probe begins with the  *)
(*      check of the child's exit, before the port probe: the port probe  *)
(*      is only started for a child found alive, and a child found exited *)
(*      leads to the read of its stderr and to the RuntimeError "SSH      *)
(*      connection failed" at that tick: no further tick, no health loop; *)
(*      the run-loop task ends, the failure is caught and the instance is *)
(*      left not running.  (Only the cancellation of a stop() that comes  *)
(*      in while stderr is read ends the task without the failure.)       *)
(* ---------------------------------------------------------------------- *)
C29_ExitDuringStartup ==
    [][\A i \in Inst :
          LET r == inst[i]
              s == inst'[i]
          IN  /\ (r.tpc # "probe_conn" /\ s.tpc = "probe_conn") =>
                    r.tpc \in {"spawn", "probe_sleep"} /\ s.child = "alive"
              /\ (r.tpc = "probe_sleep" /\ r.child # "alive" /\ Probing(s)) =>
                    s.tpc \in {"probe_sleep", "probe_err"}
              /\ (r.tpc # "probe_err" /\ s.tpc = "probe_err") =>
                    r.tpc = "probe_sleep" /\ r.child # "alive"
              /\ (r.tpc = "probe_err" /\ s.tpc # "probe_err") =>
                    /\ s.tpc = "done" /\ ~s.is_running /\ s.tend = "returned"
                    /\ s.failed \/ r.cancelReq
                    /\ s.failed => s.err = "SSH connection failed"
                    /\ ~r.stop_event => s.failed
       ]_vars

\* The child exited during the probe and the failure ended the task.
C29_Witness ==
    \E i \in Inst :
        /\ inst[i].tpc = "done" /\ inst[i].failed /\ ~inst[i].is_running
        /\ inst[i].err = "SSH connection failed" /\ inst[i].child = "exited"
        /\ ~inst[i].established /\ ~inst[i].stop_event

(* ---------------------------------------------------------------------- *)
(* C30  Tunnel runtime failure: the health loop is left only when the     *)
(*      stop event is set or when a timeout of its wait finds the child   *)
(*      exited; in the latter case stderr is read and RuntimeError "SSH   *)
(*      tunnel disconnected" is raised, which ends the run-loop task: the *)
(*      failure is caught and the instance is left not running.  A child  *)
(*      that exits while the health loop runs leads to that end, unless a *)
(*      stop is requested first.  The steps are those of one run-loop     *)
(*      task: a start() that finds is_running False while the task is     *)
(*      still in its health loop replaces the task handle, and the model  *)
(*      follows the new task from there (tpc "new").                      *)
(* ---------------------------------------------------------------------- *)
ChildGone(i) ==
    /\ i \in Inst
    /\ inst[i].tpc = "health" /\ inst[i].child # "alive" /\ ~inst[i].stop_event

Disconnected(i) ==
    /\ i \in Inst
    /\ inst[i].tpc = "done" /\ inst[i].failed /\ ~inst[i].is_running
    /\ inst[i].err = "SSH tunnel disconnected"

C30_HealthLoopSafety ==
    [][\A i \in Inst :
          LET r == inst[i]
              s == inst'[i]
              same == s.ntasks = r.ntasks
          IN  /\ (r.tpc = "health" /\ s.tpc # "health" /\ same) =>
                    /\ r.stop_event \/ r.child # "alive"
                    /\ ~r.stop_event => s.tpc = "health_err"
              /\ (r.tpc # "health_err" /\ s.tpc = "health_err") =>
                    r.tpc = "health" /\ r.child # "alive"
              /\ (r.tpc = "health_err" /\ s.tpc # "health_err" /\ same) =>
                    /\ s.tpc = "done" /\ ~s.is_running /\ s.tend = "returned"
                    /\ r.cancelReq \/ (s.failed /\ s.err = "SSH tunnel disconnected")
                    /\ ~r.stop_event => ~r.cancelReq
       ]_vars

C30_TunnelRuntimeFailure ==
    /\ C30_HealthLoopSafety
    /\ \A i \in 1..MaxInst :
          ChildGone(i) ~>
              \/ Disconnected(i)
              \/ i \in Inst /\ (inst[i].stop_event \/ inst[i].tpc = "new")

\* The child exited under the health loop of an established tunnel and the
\* failure ended the task, with no stop requested.
C30_Witness ==
    \E i \in Inst :
        /\ Disconnected(i) /\ inst[i].established
        /\ inst[i].child = "exited" /\ ~inst[i].stop_event

(* ---------------------------------------------------------------------- *)
(* C31  Listener failure in direct mode: with no stop requested the       *)
(*      serving loop is left only when a timeout of its wait finds the    *)
(*      server not serving; RuntimeError is raised, the async with and    *)
(*      the finally clause close the server, the failure is caught at the *)
(*      task boundary and the instance is left not running; the registry  *)
(*      and every other instance are unchanged by that step.              *)
(* ---------------------------------------------------------------------- *)
C31_ListenerFailure ==
    [][\A i \in Inst :
          LET r == inst[i]
              s == inst'[i]
          IN  (r.tpc = "serve" /\ s.tpc # "serve" /\ ~r.stop_event) =>
                  /\ r.listener # "serving"
                  /\ s.tpc = "done" /\ s.tend = "returned"
                  /\ s.failed /\ ~s.is_running
                  /\ s.listener = "closed"
                  /\ running' = running
                  /\ Len(inst') = Len(inst)
                  /\ \A j \in Inst \ {i} : inst'[j] = inst[j]
       ]_vars

\* A direct instance whose server had been set up has failed with no stop
\* requested, while another instance is serving.
C31_Witness ==
    \E i, j \in Inst :
        /\ i # j
        /\ RunMode(inst[i].cfg) = "direct" /\ inst[i].server
        /\ inst[i].tpc = "done" /\ inst[i].failed /\ ~inst[i].is_running
        /\ inst[i].listener = "closed" /\ ~inst[i].stop_event
        /\ inst[j].is_running /\ inst[j].tpc = "serve" /\ inst[j].listener = "serving"

\* C31, under fairness of the task's timers: a server that stopped serving
\* leads to the failure, unless a stop is requested first (or the task handle
\* is replaced by a later start()).
C31_EventuallyFailed ==
    \A i \in 1..MaxInst :
        (i \in Inst /\ inst[i].tpc = "serve" /\ inst[i].listener # "serving"
                   /\ ~inst[i].stop_event) ~>
            (i \in Inst /\ \/ inst[i].tpc = "done" /\ inst[i].failed /\ ~inst[i].is_running
                           \/ inst[i].stop_event
                           \/ inst[i].tpc = "new")

(* ---------------------------------------------------------------------- *)
(* C32  Mode dispatch: the first step of the run-loop task of every       *)
(*      started instance either begins to open the local listener (no     *)
(*      ssh_username) or begins to spawn the SSH child (ssh_username      *)
(*      set); no config leads to a task that does neither.                *)
(* ---------------------------------------------------------------------- *)
TookMode(r, s) ==
    \/ ~r.cfg.ssh /\ s.tpc = "resolve"
    \/ r.cfg.ssh /\ s.tpc = "spawn"

C32_ExactlyOneMode ==
    [][\A i \in Inst :
          (inst[i].tpc = "new" /\ inst'[i].tpc # "new" /\ ~inst[i].cancelReq) =>
              TookMode(inst[i], inst'[i])]_vars

\* C32, the part that holds: every config but HTTP with ssh_username takes
\* exactly one of the two modes, and HTTP with ssh_username takes none: its
\* task returns at once, with no listener and no child.
C32_AllButHttpOverSsh ==
    [][\A i \in Inst :
          (inst[i].tpc = "new" /\ inst'[i].tpc # "new" /\ ~inst[i].cancelReq) =>
              IF inst[i].cfg.ptype = "http" /\ inst[i].cfg.ssh
              THEN /\ inst'[i].tpc = "done" /\ ~inst'[i].is_running
                   /\ inst'[i].listener = "none" /\ inst'[i].child = "none"
              ELSE TookMode(inst[i], inst'[i])]_vars

(* ---------------------------------------------------------------------- *)
(* C33  Instance independence: a step of start_proxy(name, config) or     *)
(*      stop_proxy(name) changes the map entry of one name only, leaves   *)
(*      every instance object that exists (its stop event, its task, all  *)
(*      its fields) as it is, and schedules one coroutine, on the         *)
(*      instance of that name; and no step at all changes more than one   *)
(*      instance.                                                         *)
(* ---------------------------------------------------------------------- *)
C33_InstanceIndependence ==
    [][/\ \A n, m \in Names :
             (running'[n] # running[n] /\ running'[m] # running[m]) => n = m
       /\ \A n \in Names :
             running'[n] # running[n] =>
                 /\ \A j \in Inst : inst'[j] = inst[j]
                 /\ ready' = Append(ready,
                        IF running[n] = 0 THEN <<"start", running'[n]>>
                                          ELSE <<"stop", running[n]>>)
                 /\ running[n] = 0 =>
                       /\ Len(inst') = Len(inst) + 1
                       /\ inst'[running'[n]].name = n
                 /\ running[n] # 0 =>
                       inst' = inst /\ running'[n] = 0 /\ inst[running[n]].name = n
       /\ \A i, j \in Inst :
             (inst'[i] # inst[i] /\ inst'[j] # inst[j]) => i = j
      ]_vars

\* Both names are in the map, their instances have been started, and one of
\* them is then stopped through the registry while the other keeps serving.
C33_Witness ==
    \E i, j \in Inst :
        /\ i # j /\ inst[i].name # inst[j].name
        /\ running[inst[i].name] = 0 /\ inst[i].stopped
        /\ running[inst[j].name] = j
        /\ inst[j].is_running /\ inst[j].tpc = "serve" /\ ~inst[j].stop_event

(* ---------------------------------------------------------------------- *)
(* C34  Per-connection failure locality, for both handlers: no step of a  *)
(*      handler changes the instance (its listener, its run-loop task,    *)
(*      its flags) or the registry; a handler that has met a failure (the *)
(*      connection broke, the upstream connect failed) goes on to its     *)
(*      finally clause only; and a handler ends only with close() called  *)
(*      on the client writer.                                             *)
(* ---------------------------------------------------------------------- *)
HandlerEnded == conn.pc = "closed" \/ http.pc = "closed"

C34_FailureLocal ==
    [][/\ inst' = inst /\ running' = running /\ ready' = ready
       /\ inst'[1].listener = "serving" /\ inst'[1].tpc = "serve"
       /\ conn'.pc = "closed" => conn'.clientClosed
       /\ http'.pc = "closed" => http'.clientClosed
       /\ (conn.upstream = "failed" /\ conn'.pc # conn.pc) =>
             conn'.pc \in {"closing", "closed"}
       /\ (http.upstream = "failed" /\ http'.pc # http.pc) =>
             http'.pc \in {"closing", "closed"}
      ]_vars

\* A SOCKS5 handler whose connection broke has ended, the instance serving.
C34_Witness ==
    /\ conn.pc = "closed" /\ conn.lost /\ conn.clientClosed
    /\ inst[1].listener = "serving" /\ inst[1].is_running

\* An HTTP handler whose upstream connect failed has ended likewise.
C34_WitnessHttp ==
    /\ http.pc = "closed" /\ http.upstream = "failed" /\ http.clientClosed
    /\ inst[1].listener = "serving" /\ inst[1].is_running

(* ---------------------------------------------------------------------- *)
(* C35  Configuration invariant: the config a ConfigService holds, and    *)
(*      the file it has written, never have one (listen_address,          *)
(*      listen_port) under two names, after loading and after every add   *)
(*      and remove; and an add_proxy whose name is already held or whose  *)
(*      endpoint is already used ends with an error and changes neither   *)
(*      the held config nor the file.                                     *)
(* ---------------------------------------------------------------------- *)
NoSharedEndpoint(d) == \A n, m \in Keys(d) : n # m => d[n] # d[m]

C35_ConfigInvariant ==
    [][/\ NoSharedEndpoint(store'.held)
       /\ store'.loaded => NoSharedEndpoint(store'.file)
       /\ ( /\ store' # store /\ store'.op = "add"
             /\ \/ store'.name \in Keys(store.held)
                \/ \E m \in Keys(store.held) : store.held[m] = store'.ep ) =>
             /\ store'.out \in {"ValueError", "TypeError"}
             /\ store'.held = store.held /\ store'.file = store.file
      ]_vars

\* An add of a new name with an endpoint another entry has was rejected.
C35_Witness ==
    /\ store.loaded /\ store.op = "add" /\ store.out # "ok"
    /\ store.name \notin Keys(store.held)
    /\ \E m \in Keys(store.held) : store.held[m] = store.ep
    /\ Cardinality(Keys(store.held)) = 2

(* ---------------------------------------------------------------------- *)
(* C39  Editing a proxy is all-or-nothing: after an edit from the main    *)
(*      window that reports failure, the held config and the file still   *)
(*      have the original proxy under its original name.                  *)
(* ---------------------------------------------------------------------- *)
C39_EditAllOrNothing ==
    [][(store' # store /\ store'.op = "edit" /\ store'.out = "failed") =>
          /\ store'.held[store'.name] = store.held[store'.name]
          /\ store'.file[store'.name] = store.file[store'.name]]_vars

\* C39, what the edit does do: it never succeeds, and every edit of a held
\* name removes that entry from the held config and the file and leaves the
\* other entries as they are.
C39_EveryEditLosesTheEntry ==
    [][(store' # store /\ store'.op = "edit" /\ store'.out # "not_found") =>
          /\ store'.out = "failed"
          /\ store.held[store'.name] # Absent
          /\ store'.held = [store.held EXCEPT ![store'.name] = Absent]
          /\ store'.file = store'.held]_vars

(* ---------------------------------------------------------------------- *)
(* C36  Single run-loop per instance: under every interleaving of start() *)
(*      and stop() calls on one instance, no run-loop task is replaced    *)
(*      while it is unfinished (so at most one is unfinished), and an     *)
(*      instance that reports not running has no unfinished run-loop      *)
(*      task.                                                             *)
(* ---------------------------------------------------------------------- *)
C36_SingleRunLoop ==
    \A i \in Inst :
        /\ inst[i].lostTasks = 0
        /\ ~inst[i].is_running => ~TaskUnfinished(inst[i])

\* C36, the part that holds: a start() that finds is_running set creates no
\* task, so a task is only ever replaced while the instance reports not
\* running.
C36_ReplacedOnlyWhenNotRunning ==
    [][\A i \in Inst :
          inst'[i].ntasks > inst[i].ntasks =>
              ~inst[i].is_running /\ inst'[i].ntasks = inst[i].ntasks + 1]_vars

(* ---------------------------------------------------------------------- *)
(* C37  Connections end with their instance: once a stop() of a direct    *)
(*      instance has completed (its run-loop task has ended, the instance *)
(*      is not running), the handler of a connection the instance         *)
(*      accepted has ended and its client stream has been closed.         *)
(* ---------------------------------------------------------------------- *)
StopCompleted(r) == r.stopped /\ ~r.is_running /\ r.tpc = "done"

C37_ConnectionsEndWithInstance ==
    StopCompleted(inst[1]) =>
        /\ conn.pc \in {"none", "closed"}
        /\ http.pc \in {"none", "closed"}

\* C37, what happens: the stop closes the listener, and no step of stop() or
\* of the run-loop task changes anything of the accepted connection.
C37_StopClosesListenerOnly ==
    [][/\ inst' # inst => (conn' = conn /\ http' = http)
       /\ StopCompleted(inst'[1]) => inst'[1].listener = "closed"]_vars

\* The replies of the two SOCKS5 phases.
MethodReplies  == {ReplyNoAuth, ReplyNoMethod}
RequestReplies == {ReplySuccess, ReplyRefused, ReplyCmdUnsupp, ReplyAtypUnsupp}

\* C38: on one connection the handler writes at most one method-selection
\* reply (2 bytes) and at most one request reply (10 bytes), the request reply
\* only after the method-selection reply 05 00, and nothing after a request
\* reply: in particular no failure reply after the success reply.
C38_OneReplyPerPhase ==
    /\ [](conn.out \in {<<>>} \cup MethodReplies
                       \cup {ReplyNoAuth \o r : r \in RequestReplies})
    /\ [][conn.out' # conn.out =>
             \/ conn.out = <<>> /\ conn.out' \in MethodReplies
             \/ /\ conn.out = ReplyNoAuth
                /\ \E r \in RequestReplies : conn.out' = conn.out \o r]_vars

\* C38 witness: the success reply could not be drained (the connection broke)
\* and the handler closed having written the two replies and nothing more.
C38_Witness ==
    /\ conn.pc = "closed" /\ conn.lost /\ conn.phase = "connect"
    /\ conn.out = ReplyNoAuth \o ReplySuccess

\* C38 witness: a relayed connection ended with exactly the two replies.
C38_WitnessRelayed ==
    /\ conn.pc = "closed" /\ conn.phase = "relay"
    /\ conn.out = ReplyNoAuth \o ReplySuccess

\* The header lines of a serialized request whose name is Host, in any
\* spelling.
HostLines(t) ==
    LET low == Lower(t)
    IN  {k \in 1..(Len(t) - 6) :
            SubSeq(low, k, k + 6) = <<"\r", "\n", "h", "o", "s", "t", ":">>}

\* The headers the client sent under the name Host, in any spelling.
ClientHostHeaders(c) ==
    {k \in DOMAIN c.headers : Lower(c.headers[k][1]) = <<"h", "o", "s", "t">>}

\* C40: the request written to the upstream for a request that is not
\* CONNECT has exactly one Host header line, whether or not the client sent a
\* Host header of its own.
C40_OneHostHeader ==
    (http.method # CONNECT /\ http.fwd # <<>>) =>
        Cardinality(HostLines(http.fwd)) = 1

\* What the code does instead: it writes its own Host line and then every
\* client header except Proxy-Connection, the client's Host headers included.
C40_HostAddedToClientHeaders ==
    (http.method # CONNECT /\ http.fwd # <<>>) =>
        Cardinality(HostLines(http.fwd))
            = 1 + Cardinality(ClientHostHeaders(http))

\* A request whose client sent a Host header was forwarded.
C40_ClientSentHost ==
    /\ http.method # CONNECT /\ http.fwd # <<>>
    /\ ClientHostHeaders(http) # {}

====
